---------------------------- MODULE Spec2Model ----------------------------
(***************************************************************************)
(* Model of the note summarizer of semantic-obsidian                       *)
(* (skills/summarize-note/scripts/summarize_note.py), of the link graph    *)
(* traversal (skills/wikilink-graph-bfs/scripts/bfs_traversal.py) and of   *)
(* the link deduplication                                                  *)
(* (skills/dedupe-frontmatter-links/scripts/dedupe_links.py).              *)
(*                                                                         *)
(* Text is a sequence of one-character strings.  Specifications:           *)
(*   SpecRec      one run of split_text_recursively, call by call;         *)
(*   SpecHeaders  one run of split_by_markdown_headers, line by line;      *)
(*   SpecNote     one run of split_note on a body and a chunk_size;        *)
(*   Spec         one batch run of _run / process_file / summarize_chunks  *)
(*                with the generation calls of asyncio.gather in flight;   *)
(*   SpecYaml     update_summary_in_yaml on a block, and again on the      *)
(*                block it returned;                                       *)
(*   SpecBfs      one run of bfs_traversal, level by level;                *)
(*   SpecDedupe   one run of dedupe_wikilinks, link by link;               *)
(*   SpecClean    clean_llm_output on a response.                          *)
(***************************************************************************)
EXTENDS Naturals, Sequences, FiniteSets, TLC

(***************************************************************************)
(* Bounds of the model.                                                    *)
(***************************************************************************)
\* longest text given to split_text_recursively in SpecRec
MaxLen == 5
\* largest chunk_size tried in SpecRec
MaxSize == 3
\* most lines of a note body in SpecHeaders and SpecNote
MaxLines == 4
\* largest chunk_size tried in SpecNote
MaxChunk == 14
\* most files of a batch in Spec
MaxDocs == 2
\* most lines of a metadata block in SpecYaml
MaxYamlLines == 2
\* most successive rewrites of a block in SpecYaml
MaxRewrites == 2
\* largest n_hops tried in SpecBfs
MaxHops == 2
\* most entries of a link list in SpecDedupe
MaxLinks == 3
\* most tokens of a response in SpecClean
MaxTokens == 5

(***************************************************************************)
(* Characters and Python string primitives.                                *)
(***************************************************************************)
SP == " "
NL == "\n"
DOT == "."
HASH == "#"

\* the characters str.strip() removes and the regex class \s matches
IsSpace(c) == c \in {SP, NL}

Min(S) == CHOOSE m \in S : \A n \in S : m <= n
Max(S) == CHOOSE m \in S : \A n \in S : n <= m

\* str.strip()
Strip(s) ==
    LET keep == {i \in 1..Len(s) : ~IsSpace(s[i])}
    IN  IF keep = {} THEN <<>> ELSE SubSeq(s, Min(keep), Max(keep))

\* text[i:].startswith(sep), i counted from 1
MatchAt(text, sep, i) ==
    /\ i + Len(sep) - 1 <= Len(text)
    /\ SubSeq(text, i, i + Len(sep) - 1) = sep

\* sep in text (sep not empty)
Contains(text, sep) == \E i \in 1..Len(text) : MatchAt(text, sep, i)

\* text.find(sep) counted from 1, 0 when absent
Find(text, sep) ==
    IF Contains(text, sep)
    THEN Min({i \in 1..Len(text) : MatchAt(text, sep, i)})
    ELSE 0

RECURSIVE SplitOn(_, _)
\* text.split(sep): left to right, matches do not overlap
SplitOn(text, sep) ==
    LET i == Find(text, sep)
    IN  IF i = 0
        THEN <<text>>
        ELSE <<SubSeq(text, 1, i - 1)>>
             \o SplitOn(SubSeq(text, i + Len(sep), Len(text)), sep)

RECURSIVE Join(_, _)
\* sep.join(parts)
Join(parts, sep) ==
    IF parts = <<>> THEN <<>>
    ELSE IF Len(parts) = 1 THEN parts[1]
    ELSE parts[1] \o sep \o Join(Tail(parts), sep)

RECURSIVE Concat(_)
\* "".join(parts)
Concat(parts) == IF parts = <<>> THEN <<>> ELSE Head(parts) \o Concat(Tail(parts))

\* [x for x in seq if keep(x)]
RECURSIVE SelectNonBlank(_)
SelectNonBlank(seq) ==
    IF seq = <<>> THEN <<>>
    ELSE (IF Strip(Head(seq)) # <<>> THEN <<Head(seq)>> ELSE <<>>)
         \o SelectNonBlank(Tail(seq))

(***************************************************************************)
(* split_text_recursively (summarize_note.py 155-217).                     *)
(***************************************************************************)
\* the default of the separators parameter
DefaultSeparators == << <<NL, NL>>, <<NL>>, <<DOT, SP>>, <<SP>> >>

\* lines 168-169: the text fits
BaseCase(text) == IF Strip(text) # <<>> THEN <<text>> ELSE <<>>

\* lines 172-176: position in separators of the first one present, 0 for None
PickSep(text, separators) ==
    LET present == {k \in 1..Len(separators) : Contains(text, separators[k])}
    IN  IF present = {} THEN 0 ELSE Min(present)

\* separators.index(sep)
IndexOf(separators, sep) == Min({k \in 1..Len(separators) : separators[k] = sep})

RemainingKeepsChosen(separators, sep) ==
    SubSeq(separators, IndexOf(separators, sep), Len(separators))

\* line 202: the separators after the chosen one
Remaining(separators, sep) ==
    SubSeq(separators, IndexOf(separators, sep) + 1, Len(separators))

RECURSIVE HardSplitFrom(_, _, _)
HardSplitFrom(text, chunk_size, i) ==
    IF i > Len(text) THEN <<>>
    ELSE LET piece == Strip(SubSeq(text, i, Min({i + chunk_size - 1, Len(text)})))
         IN  (IF piece # <<>> THEN <<piece>> ELSE <<>>)
             \o HardSplitFrom(text, chunk_size, i + chunk_size)

HardSplitUntrimmed(text, chunk_size) ==
    [k \in 1..((Len(text) + chunk_size - 1) \div chunk_size) |->
        SubSeq(text, (k - 1) * chunk_size + 1,
               Min({k * chunk_size, Len(text)}))]

\* lines 178-185: the hard split
HardSplit(text, chunk_size) == HardSplitFrom(text, chunk_size, 1)

\* the loop's locals before the first part (lines 188-190)
LoopStart == [chunks |-> <<>>, current |-> <<>>, current_len |-> 0]

AddedLenNoSep(acc, part, sep) == Len(part)

\* line 193
AddedLen(acc, part, sep) ==
    Len(part) + (IF acc.current # <<>> THEN Len(sep) ELSE 0)

\* line 194
Fits(acc, part, sep, chunk_size) ==
    acc.current_len + AddedLen(acc, part, sep) <= chunk_size

\* lines 195-196
Accumulate(acc, part, sep) ==
    [acc EXCEPT !.current = Append(@, part),
                !.current_len = @ + AddedLen(acc, part, sep)]

\* lines 198-199: the buffer flushed in the middle of the loop
FlushMid(acc, sep) ==
    IF acc.current # <<>>
    THEN Append(acc.chunks, Strip(Join(acc.current, sep)))
    ELSE acc.chunks

\* lines 203-207: the pieces of an oversized part join the chunks
AfterRecursion(acc, sep, pieces) ==
    [chunks |-> FlushMid(acc, sep) \o pieces, current |-> <<>>, current_len |-> 0]

\* lines 209-210
StartNew(acc, part, sep) ==
    [chunks |-> FlushMid(acc, sep), current |-> <<part>>, current_len |-> Len(part)]

\* lines 212-217
FinalFlush(acc, sep) ==
    LET piece == Strip(Join(acc.current, sep))
    IN  IF acc.current # <<>> /\ piece # <<>>
        THEN Append(acc.chunks, piece)
        ELSE acc.chunks

RECURSIVE SplitTextRecursively(_, _, _)
RECURSIVE SplitLoop(_, _, _, _, _, _)
\* lines 192-210: the loop over parts from the i-th on
SplitLoop(parts, i, acc, sep, chunk_size, separators) ==
    IF i > Len(parts) THEN acc
    ELSE LET part == parts[i]
             next == IF Fits(acc, part, sep, chunk_size)
                       THEN Accumulate(acc, part, sep)
                     ELSE IF Len(part) > chunk_size
                       THEN AfterRecursion(acc, sep,
                              SplitTextRecursively(part, chunk_size,
                                                   Remaining(separators, sep)))
                     ELSE StartNew(acc, part, sep)
         IN  SplitLoop(parts, i + 1, next, sep, chunk_size, separators)

\* split_text_recursively(text, chunk_size, separators)
SplitTextRecursively(text, chunk_size, separators) ==
    IF Len(text) <= chunk_size THEN BaseCase(text)
    ELSE LET k == PickSep(text, separators)
         IN  IF k = 0 THEN HardSplit(text, chunk_size)
             ELSE LET sep == separators[k]
                      acc == SplitLoop(SplitOn(text, sep), 1, LoopStart, sep,
                                       chunk_size, separators)
                  IN  FinalFlush(acc, sep)


(***************************************************************************)
(* split_by_markdown_headers (summarize_note.py 101-148).  A Section is    *)
(* [content, headers]; headers is the dict in insertion order, a sequence  *)
(* of <<level, title>> entries, level n standing for the key "hn".         *)
(***************************************************************************)
\* line 117: the default of the levels parameter
DefaultLevels == <<1, 2, 3>>

LevelSet(lvls) == {lvls[k] : k \in 1..Len(lvls)}

\* the "#" characters a line starts with
LeadingHashes(line) ==
    Max({k \in 0..Len(line) : \A j \in 1..k : line[j] = HASH})

\* the whitespace characters that follow the first h characters of a line
SpacesAfter(line, h) ==
    Max({k \in 0..(Len(line) - h) : \A j \in 1..k : IsSpace(line[h + j])})

\* line 124: re.match(r"^(#{1,6})\s+(.+)$", line) on a line without "\n":
\* one to six "#", then whitespace, then at least one character, which is
\* the last whitespace character when nothing else follows
HeadingMatches(line) ==
    LET h == LeadingHashes(line)
        w == SpacesAfter(line, h)
    IN  /\ h \in 1..6
        /\ w >= 1
        /\ (h + w < Len(line) \/ w >= 2)

\* line 126: len(m.group(1))
HeadingLevel(line) == LeadingHashes(line)

\* line 135: m.group(2).strip()
HeadingTitle(line) ==
    LET h == LeadingHashes(line)
        w == SpacesAfter(line, h)
    IN  IF h + w < Len(line)
        THEN Strip(SubSeq(line, h + w + 1, Len(line)))
        ELSE Strip(<<line[Len(line)]>>)

\* lines 125-127: the line is a heading of a level that is split on
IsTrackedHeading(line, lvls) ==
    HeadingMatches(line) /\ HeadingLevel(line) \in LevelSet(lvls)

HasKey(headers, level) == \E k \in 1..Len(headers) : headers[k][1] = level

SetKeyAtFront(headers, level, title) ==
    <<<<level, title>>>> \o SelectSeq(headers, LAMBDA e : e[1] # level)

\* current_headers[f"h{level}"] = title: in place when the key is there,
\* at the end of the dict when it is not
SetKey(headers, level, title) ==
    IF HasKey(headers, level)
    THEN [k \in 1..Len(headers) |->
             IF headers[k][1] = level THEN <<level, title>> ELSE headers[k]]
    ELSE Append(headers, <<level, title>>)

\* current_headers.pop(f"h{lvl}", None)
PopKey(headers, level) == SelectSeq(headers, LAMBDA e : e[1] # level)

ClearNothing(headers, level, lvls) == headers

RECURSIVE ClearDeeperFrom(_, _, _, _)
ClearDeeperFrom(headers, level, lvls, k) ==
    IF k > Len(lvls) THEN headers
    ELSE ClearDeeperFrom(IF lvls[k] > level THEN PopKey(headers, lvls[k])
                         ELSE headers,
                         level, lvls, k + 1)

\* lines 136-138: clear the deeper levels
ClearDeeper(headers, level, lvls) == ClearDeeperFrom(headers, level, lvls, 1)

\* lines 119-121: the locals before the first line
HeadersStart ==
    [sections |-> <<>>, current_headers |-> <<>>, current_lines |-> <<>>]

FlushLinesUntrimmed(st) ==
    LET content == Join(st.current_lines, <<NL>>)
    IN  IF Strip(content) # <<>>
        THEN Append(st.sections,
                    [content |-> content, headers |-> st.current_headers])
        ELSE st.sections

\* lines 129-131 and 144-146: the accumulated lines become a Section
FlushLines(st) ==
    LET content == Strip(Join(st.current_lines, <<NL>>))
    IN  IF content # <<>>
        THEN Append(st.sections,
                    [content |-> content, headers |-> st.current_headers])
        ELSE st.sections

\* lines 124-141: the body of the loop for one line
HeaderStep(st, line, lvls) ==
    IF IsTrackedHeading(line, lvls)
    THEN [sections |-> FlushLines(st),
          current_headers |->
              ClearDeeper(SetKey(st.current_headers, HeadingLevel(line),
                                 HeadingTitle(line)),
                          HeadingLevel(line), lvls),
          current_lines |-> <<>>]
    ELSE [st EXCEPT !.current_lines = Append(@, line)]

RECURSIVE HeaderLoop(_, _, _, _)
HeaderLoop(st, lns, k, lvls) ==
    IF k > Len(lns) THEN st
    ELSE HeaderLoop(HeaderStep(st, lns[k], lvls), lns, k + 1, lvls)

\* split_by_markdown_headers(text, levels)
SplitByMarkdownHeaders(t, lvls) ==
    FlushLines(HeaderLoop(HeadersStart, SplitOn(t, <<NL>>), 1, lvls))

(***************************************************************************)
(* _section_text and split_note (summarize_note.py 224-276).               *)
(***************************************************************************)
\* sec.headers.values()
HeaderValues(headers) == [k \in 1..Len(headers) |-> headers[k][2]]

\* lines 224-230
SectionText(sec) ==
    (IF sec.headers # <<>>
     THEN <<"[">> \o Join(HeaderValues(sec.headers), <<SP, ">", SP>>)
          \o <<"]", NL>>
     ELSE <<>>)
    \o sec.content

\* the "\n\n" between merged sections
Joiner == <<NL, NL>>

\* lines 246-248
MergeStart == [chunks |-> <<>>, current_parts |-> <<>>, current_len |-> 0]

\* lines 257-258, 265-266, 273-274
FlushParts(acc) ==
    IF acc.current_parts # <<>>
    THEN Append(acc.chunks, Join(acc.current_parts, Joiner))
    ELSE acc.chunks

\* line 263
MergeOverflows(acc, t, size) == acc.current_len + Len(t) + 2 > size

OversizedByContent(sec, size) == Len(sec.content) > size

\* lines 251, 255: the rendered section, breadcrumb included, is too long
Oversized(sec, size) == Len(SectionText(sec)) > size

MergeStepLateFlush(acc, sec, size) ==
    LET t == SectionText(sec)
    IN  IF Strip(t) = <<>> THEN acc
        ELSE IF Oversized(sec, size)
          THEN [acc EXCEPT !.chunks =
                    @ \o SplitTextRecursively(t, size, DefaultSeparators)]
        ELSE IF MergeOverflows(acc, t, size)
          THEN [chunks |-> FlushParts(acc),
                current_parts |-> <<t>>, current_len |-> Len(t)]
        ELSE [acc EXCEPT !.current_parts = Append(@, t),
                         !.current_len = @ + Len(t) + 2]

\* lines 251-271: the body of the loop for one section
MergeStep(acc, sec, size) ==
    LET t == SectionText(sec)
    IN  IF Strip(t) = <<>> THEN acc
        ELSE IF Oversized(sec, size)
          THEN [chunks |-> FlushParts(acc)
                           \o SplitTextRecursively(t, size, DefaultSeparators),
                current_parts |-> <<>>, current_len |-> 0]
        ELSE IF MergeOverflows(acc, t, size)
          THEN [chunks |-> FlushParts(acc),
                current_parts |-> <<t>>, current_len |-> Len(t)]
        ELSE [acc EXCEPT !.current_parts = Append(@, t),
                         !.current_len = @ + Len(t) + 2]

RECURSIVE MergeLoop(_, _, _, _)
MergeLoop(acc, sections, k, size) ==
    IF k > Len(sections) THEN acc
    ELSE MergeLoop(MergeStep(acc, sections[k], size), sections, k + 1, size)

\* split_note(body, chunk_size)
SplitNote(b, size) ==
    LET sections == SplitByMarkdownHeaders(b, DefaultLevels)
    IN  IF sections = <<>>
        THEN SplitTextRecursively(b, size, DefaultSeparators)
        ELSE SelectNonBlank(FlushParts(MergeLoop(MergeStart, sections, 1, size)))

(***************************************************************************)
(* Frontmatter helpers (summarize_note.py 283-320).                        *)
(***************************************************************************)
QUOTE == "\""
APOS == "'"
BACKSLASH == "\\"
COLON == ":"

Fence == <<"-", "-", "-">>
OpenFence == Fence \o <<NL>>
CloseFence == <<NL>> \o Fence

\* text.find(sep, from) counted from 1, 0 when absent
FindFrom(text, sep, from) ==
    LET hits == {i \in from..Len(text) : MatchAt(text, sep, i)}
    IN  IF hits = {} THEN 0 ELSE Min(hits)

\* line 434: f"---\n{new_yaml}\n---\n{body}"
FileContent(yaml_text, b) == OpenFence \o yaml_text \o CloseFence \o <<NL>> \o b

\* line 285: where the lazy group of ^---\n(.*?)\n---\n?(.*) stops, 0 when
\* the content does not match
FrontmatterEnd(content) ==
    IF MatchAt(content, OpenFence, 1) THEN FindFrom(content, CloseFence, 5) ELSE 0

\* a value yaml.safe_load gives a key
StrValue(s) == [type |-> "str", val |-> s]
NullValue == [type |-> "null", val |-> <<>>]

\* the characters a plain key or a plain scalar does not start with
Indicators == {"{", "}", "[", "]", QUOTE, APOS, SP, "-", "#", COLON}

\* a line "key: value" or "key:" of a block mapping
IsEntry(line) ==
    LET k == Find(line, <<COLON>>)
    IN  /\ k > 1
        /\ line[1] \notin Indicators
        /\ k = Len(line) \/ line[k + 1] = SP

EntryKey(line) == SubSeq(line, 1, Find(line, <<COLON>>) - 1)
EntryRest(line) == Strip(SubSeq(line, Find(line, <<COLON>>) + 1, Len(line)))

RECURSIVE Unescape(_)
\* the text of a double-quoted scalar: \" is a quote and \\ a backslash
Unescape(s) ==
    IF s = <<>> THEN <<>>
    ELSE IF s[1] = BACKSLASH /\ Len(s) >= 2
         THEN <<s[2]>> \o Unescape(SubSeq(s, 3, Len(s)))
         ELSE <<s[1]>> \o Unescape(Tail(s))

RECURSIVE ClosingQuote(_, _)
\* the position of the quote that closes a double-quoted scalar read from
\* position i, 0 when it is never closed
ClosingQuote(v, i) ==
    IF i > Len(v) THEN 0
    ELSE IF v[i] = BACKSLASH THEN ClosingQuote(v, i + 2)
    ELSE IF v[i] = QUOTE THEN i
    ELSE ClosingQuote(v, i + 1)

\* the value of an entry is well formed: empty, double-quoted and closed at
\* its end, or plain
IsScalar(v) ==
    \/ v = <<>>
    \/ v[1] = QUOTE /\ ClosingQuote(v, 2) = Len(v)
    \/ v[1] \notin Indicators

ScalarValue(v) ==
    IF v = <<>> THEN NullValue
    ELSE IF v[1] = QUOTE THEN StrValue(Unescape(SubSeq(v, 2, Len(v) - 1)))
    ELSE StrValue(v)

\* the entry opens a double-quoted scalar that its line does not close
OpensQuoted(line) ==
    /\ IsEntry(line)
    /\ EntryRest(line) # <<>>
    /\ EntryRest(line)[1] = QUOTE
    /\ ClosingQuote(EntryRest(line), 2) = 0

RECURSIVE FoldQuoted(_)
\* a double-quoted scalar goes on over the next lines up to its closing
\* quote, each line break read as one space
FoldQuoted(lns) ==
    IF Len(lns) < 2 THEN lns
    ELSE IF OpensQuoted(lns[1])
    THEN FoldQuoted(<<lns[1] \o <<SP>> \o Strip(lns[2])>>
                    \o SubSeq(lns, 3, Len(lns)))
    ELSE <<lns[1]>> \o FoldQuoted(Tail(lns))

\* line 289: yaml.safe_load(yaml_text) or {}, for the frontmatter blocks the
\* files of the model have and the blocks written back (one entry per line,
\* a double-quoted value possibly on several lines, or plain text, or a flow
\* collection left open): a mapping as the sequence of its (key, value)
\* pairs, a scalar that is no mapping, or yaml.YAMLError
YamlSafeLoad(yaml_text) ==
    LET all == SplitOn(yaml_text, <<NL>>)
        used == FoldQuoted(SelectNonBlank(all))
        idx == 1..Len(used)
    IN  IF \A i \in idx : IsEntry(used[i]) /\ IsScalar(EntryRest(used[i]))
        THEN [kind |-> "mapping",
              entries |-> [i \in idx |->
                  <<EntryKey(used[i]), ScalarValue(EntryRest(used[i]))>>]]
        ELSE IF \A i \in idx : used[i][1] \notin Indicators
                                  /\ ~Contains(used[i], <<COLON>>)
        THEN [kind |-> "scalar", entries |-> <<>>]
        ELSE [kind |-> "YAMLError", entries |-> <<>>]

\* lines 283-293: fm is None when the block is missing or unparseable
ExtractFrontmatterAndBody(content) ==
    LET i == FrontmatterEnd(content)
        after == i + Len(CloseFence)
        start == IF after <= Len(content) /\ content[after] = NL
                 THEN after + 1 ELSE after
        yaml_text == SubSeq(content, 5, i - 1)
        loaded == YamlSafeLoad(yaml_text)
    IN  IF i = 0
        THEN [fm |-> [kind |-> "None", entries |-> <<>>],
              yaml_text |-> <<>>, body |-> content]
        ELSE [fm |-> IF loaded.kind = "YAMLError"
                     THEN [kind |-> "None", entries |-> <<>>] ELSE loaded,
              yaml_text |-> yaml_text,
              body |-> SubSeq(content, start, Len(content))]

\* fm.get(key, default): the last entry of the key wins
DictGet(fm, key, default) ==
    LET at == {i \in 1..Len(fm.entries) : fm.entries[i][1] = key}
    IN  IF at = {} THEN default ELSE fm.entries[Max(at)][2]

SummaryKey == <<"s", "u", "m", "m", "a", "r", "y">>
AiMarker == <<"[", "A", "I", "]">>

\* the keys a new summary line is inserted before (line 315)
LinkKeys ==
    { <<"T", "O", "P", "I", "C">>, <<"P", "R", "I", "O", "R">>,
      <<"N", "E", "X", "T">>,
      <<"R", "E", "L", "A", "T", "E", "D", "_", "T", "O">> }

RECURSIVE Escape(_)
\* line 298: .replace("\\", "\\\\").replace('"', '\\"')
Escape(s) ==
    IF s = <<>> THEN <<>>
    ELSE (IF Head(s) \in {BACKSLASH, QUOTE} THEN <<BACKSLASH, Head(s)>>
          ELSE <<Head(s)>>) \o Escape(Tail(s))

\* line 299: f'summary: "[AI] {escaped}"'
SummaryLine(new_summary) ==
    SummaryKey \o <<COLON, SP, QUOTE>> \o AiMarker \o <<SP>>
        \o Escape(new_summary) \o <<QUOTE>>

\* line 306: re.match(r"^summary:\s*", line)
IsSummaryLine(line) == MatchAt(line, SummaryKey \o <<COLON>>, 1)

\* line 315: re.match(r"^(TOPIC|PRIOR|NEXT|RELATED_TO):", line)
IsLinkLine(line) == \E key \in LinkKeys : MatchAt(line, key \o <<COLON>>, 1)

\* list.insert(idx, x), idx counted from 0
InsertAt(seq, idx, x) ==
    SubSeq(seq, 1, idx) \o <<x>> \o SubSeq(seq, idx + 1, Len(seq))

\* lines 296-320
UpdateSummaryInYaml(yaml_text, new_summary) ==
    LET old == SplitOn(yaml_text, <<NL>>)
        new_lines == [i \in 1..Len(old) |->
            IF IsSummaryLine(old[i]) THEN SummaryLine(new_summary) ELSE old[i]]
        found == \E i \in 1..Len(old) : IsSummaryLine(old[i])
        links == {i \in 1..Len(new_lines) : IsLinkLine(new_lines[i])}
        insert_idx == IF links = {} THEN Len(new_lines) ELSE Min(links) - 1
    IN  Join(IF found THEN new_lines
             ELSE InsertAt(new_lines, insert_idx, SummaryLine(new_summary)),
             <<NL>>)

(***************************************************************************)
(* LLM helpers (summarize_note.py 35-87, 327-374).                         *)
(***************************************************************************)
ThinkOpen == <<"<", "t", "h", "i", "n", "k", ">">>
ThinkClose == <<"<", "/", "t", "h", "i", "n", "k", ">">>

RECURSIVE StripThink(_)
\* line 329: re.sub(r"<think>.*?</think>", "", text, flags=re.DOTALL)
StripThink(t) ==
    LET i == Find(t, ThinkOpen)
        j == IF i = 0 THEN 0 ELSE FindFrom(t, ThinkClose, i + Len(ThinkOpen))
    IN  IF j = 0 THEN t
        ELSE SubSeq(t, 1, i - 1)
             \o StripThink(SubSeq(t, j + Len(ThinkClose), Len(t)))

UnquoteUnmatched(t, q) ==
    IF Len(t) >= 2 /\ t[1] = q THEN SubSeq(t, 2, Len(t) - 1) ELSE t

\* lines 331-334: one layer of the quote character q, when both ends have it
Unquote(t, q) ==
    IF Len(t) >= 2 /\ t[1] = q /\ t[Len(t)] = q
    THEN SubSeq(t, 2, Len(t) - 1) ELSE t

\* lines 327-335
CleanLlmOutput(t) == Strip(Unquote(Unquote(Strip(StripThink(t)), QUOTE), APOS))

\* str(n) for a natural number
Digits == <<"0", "1", "2", "3", "4", "5", "6", "7", "8", "9">>

RECURSIVE Decimal(_)
Decimal(n) ==
    IF n < 10 THEN <<Digits[n + 1]>>
    ELSE Decimal(n \div 10) \o <<Digits[(n % 10) + 1]>>

\* PROMPT.replace("{text}", text): a template has the placeholder once, so the
\* prompt is the template with the text in its place
StuffPrompt(chunk) == [template |-> "STUFF_PROMPT", text |-> chunk]
MapPromptWithoutChunk(chunk) == [template |-> "MAP_PROMPT", text |-> <<>>]
MapPrompt(chunk) == [template |-> "MAP_PROMPT", text |-> chunk]
CombinePrompt(combined) == [template |-> "COMBINE_PROMPT", text |-> combined]

\* line 370: f"Section {i + 1}: {s}", position counted from 1
SectionEntry(position, s) ==
    <<"S", "e", "c", "t", "i", "o", "n", SP>> \o Decimal(position)
        \o <<COLON, SP>> \o s

\* lines 369-371
Combined(section_summaries) ==
    Join([k \in 1..Len(section_summaries) |->
              SectionEntry(k, section_summaries[k])], <<NL, NL>>)

UsesStuffNever(chunks) == FALSE

UsesStuffUpToTwo(chunks) == Len(chunks) \in {1, 2}

\* line 356: the stuff strategy
UsesStuff(chunks) == Len(chunks) = 1

(***************************************************************************)
(* State.                                                                  *)
(***************************************************************************)
VARIABLES
    \* the chunk_size argument (--chunk-size), shared by the specifications
    chunk_size,
    \* SpecRec: the arguments of the outermost call of split_text_recursively
    text, separators,
    \* SpecRec: the call stack, one frame per active call, the running call last
    stack,
    \* SpecRec: the list the outermost call returned
    pieces,
    \* SpecRec: "input", "running" until the outermost call returned, "done"
    recPc,
    \* SpecHeaders, SpecNote: the note body given to the splitter
    body,
    \* SpecHeaders: the levels argument of split_by_markdown_headers
    levels,
    \* SpecHeaders: the lines of the body and how many the loop has consumed
    lines, lineNo,
    \* SpecHeaders: the locals sections, current_headers, current_lines
    hdr,
    \* SpecHeaders: for each emitted section, lineNo when it was emitted
    \* (history: the lines before it are the ones that precede the section)
    secAt,
    \* SpecHeaders: "input", "loop", "done"
    hdrPc,
    \* SpecNote: the list split_note returned
    note_chunks,
    \* SpecNote: "input", "done"
    notePc,
    \* Spec: the --dry-run flag, and the files argument as far as the loop of
    \* _run has reached it
    dry_run, files,
    \* Spec: the file system, path -> file
    fs,
    \* Spec: how many files of the batch the loop of _run has handled
    fileNo,
    \* Spec: the results list of _run
    results,
    \* Spec: where the main task is: "file" (top of the loop of _run),
    \* suspended at "stuff", "gather" or "reduce", "done", "crashed"
    runPc,
    \* Spec: the locals of the process_file / summarize_chunks call in progress
    job,
    \* Spec: the generation calls issued so far, in the order of issue
    calls,
    \* Spec: the positions of the map calls of the document in progress, in
    \* the order they completed (history)
    arrival,
    \* Spec: for each call of summarize_chunks, the file number and the chunks
    \* it was given (history)
    given,
    \* Spec: the file numbers whose file was written (history)
    writes,
    \* SpecYaml: the arguments of update_summary_in_yaml
    yaml_text, new_summary,
    \* SpecYaml: the blocks successive rewrites returned, each rewrite taking
    \* the block the one before returned
    rewrites,
    \* SpecBfs: the arguments of bfs_traversal (adjacency: note -> list of
    \* linked notes)
    adjacency, start_note, n_hops,
    \* SpecBfs: the locals visited, levels, current_level and hop of
    \* bfs_traversal, and the resolved start note
    bfs,
    \* SpecBfs: what bfs_traversal returned
    traversal,
    \* SpecBfs: "enter", "loop" (top of the for of line 116), "return", "done"
    bfsPc,
    \* SpecDedupe: the argument of dedupe_wikilinks
    links,
    \* SpecDedupe: the locals seen, result, removed of dedupe_wikilinks and
    \* how many links the loop has consumed
    dedupe,
    \* SpecDedupe: "loop", "done"
    dedupePc,
    \* SpecClean: the argument of clean_llm_output (resp.message.content)
    llm_text,
    \* SpecClean: what clean_llm_output returned
    cleaned,
    \* SpecClean: "call" (before the call), "done"
    cleanPc

recVars == <<text, separators, stack, pieces, recPc>>
hdrVars == <<levels, lines, lineNo, hdr, secAt, hdrPc>>
noteVars == <<note_chunks, notePc>>
runVars ==
    <<dry_run, files, fs, fileNo, results, runPc, job, calls, arrival, given,
      writes>>
yamlVars == <<yaml_text, new_summary, rewrites>>
bfsVars == <<adjacency, start_note, n_hops, bfs, traversal, bfsPc>>
dedupeVars == <<links, dedupe, dedupePc>>
cleanVars == <<llm_text, cleaned, cleanPc>>
toolVars == <<yamlVars, bfsVars, dedupeVars, cleanVars>>
vars == <<chunk_size, recVars, body, hdrVars, noteVars, runVars, toolVars>>

RecIdle ==
    /\ text = <<>>
    /\ separators = <<>>
    /\ stack = <<>>
    /\ pieces = <<>>
    /\ recPc = "idle"

HdrIdle ==
    /\ levels = <<>>
    /\ lines = <<>>
    /\ lineNo = 0
    /\ hdr = [sections |-> <<>>, current_headers |-> <<>>, current_lines |-> <<>>]
    /\ secAt = <<>>
    /\ hdrPc = "idle"

NoteIdle ==
    /\ note_chunks = <<>>
    /\ notePc = "idle"

\* the locals of process_file and summarize_chunks, before a call
NoJob ==
    [yaml_text |-> <<>>, body |-> <<>>, old_summary |-> StrValue(<<>>),
     chunks |-> <<>>, section_summaries |-> <<>>, exc |-> ""]

RunIdle ==
    /\ dry_run = FALSE
    /\ files = <<>>
    /\ fs = <<>>
    /\ fileNo = 0
    /\ results = <<>>
    /\ runPc = "idle"
    /\ job = NoJob
    /\ calls = <<>>
    /\ arrival = <<>>
    /\ given = <<>>
    /\ writes = <<>>

YamlIdle ==
    /\ yaml_text = <<>>
    /\ new_summary = <<>>
    /\ rewrites = <<>>

\* the locals of bfs_traversal before line 112
NoBfs == [start |-> "", visited |-> {}, levels |-> <<>>,
          current_level |-> <<>>, hop |-> 0]

BfsIdle ==
    /\ adjacency = <<>>
    /\ start_note = ""
    /\ n_hops = 0
    /\ bfs = NoBfs
    /\ traversal = <<>>
    /\ bfsPc = "idle"

\* lines 81-83; seen maps a key to (link, target, capitals)
NoDedupe == [seen |-> <<>>, result |-> <<>>, removed |-> <<>>, done |-> 0]

DedupeIdle ==
    /\ links = <<>>
    /\ dedupe = NoDedupe
    /\ dedupePc = "idle"

CleanIdle ==
    /\ llm_text = <<>>
    /\ cleaned = <<>>
    /\ cleanPc = "done"

ToolsIdle == YamlIdle /\ BfsIdle /\ DedupeIdle /\ CleanIdle

\* what the steps of split_text_recursively leave alone
notRec == <<body, hdrVars, noteVars, runVars, toolVars>>
\* what the steps of split_by_markdown_headers leave alone
notHdr == <<chunk_size, recVars, noteVars, runVars, toolVars>>
\* what split_note leaves alone
notNote == <<recVars, hdrVars, runVars, toolVars>>
\* what a batch run leaves alone
notRun == <<recVars, body, hdrVars, noteVars, toolVars>>
\* what the splitters and the batch run use
mainVars == <<chunk_size, recVars, body, hdrVars, noteVars, runVars>>
MainIdle ==
    /\ chunk_size = 1 /\ body = <<>>
    /\ RecIdle /\ HdrIdle /\ NoteIdle /\ RunIdle
\* what update_summary_in_yaml, bfs_traversal, dedupe_wikilinks leave alone
notYaml == <<mainVars, bfsVars, dedupeVars, cleanVars>>
notBfs == <<mainVars, yamlVars, dedupeVars, cleanVars>>
notDedupe == <<mainVars, yamlVars, bfsVars, cleanVars>>
\* what clean_llm_output leaves alone
notClean == <<mainVars, yamlVars, bfsVars, dedupeVars>>

(***************************************************************************)
(* SpecRec: split_text_recursively executed call by call.  A frame holds   *)
(* the locals of one call; at is "enter" (line 165), "loop" (line 192,     *)
(* before the part numbered i) or "return" (chunks is the returned list).  *)
(***************************************************************************)
Alphabet == {"a", SP, NL, DOT}

\* the separator lists tried: the default, none, and a shorter list
SeparatorLists == {DefaultSeparators, <<>>, << <<SP>>, <<NL>> >>}

NewFrame(t, seps) ==
    [text |-> t, separators |-> seps, at |-> "enter", sep |-> <<>>,
     parts |-> <<>>, i |-> 0, acc |-> LoopStart, chunks |-> <<>>]

Top == stack[Len(stack)]
SetTop(f) == [stack EXCEPT ![Len(stack)] = f]
Running == recPc = "running" /\ stack # <<>>

InitRec ==
    /\ chunk_size \in 1..MaxSize
    /\ separators \in SeparatorLists
    /\ text = <<>>
    /\ stack = <<>>
    /\ pieces = <<>>
    /\ recPc = "input"
    /\ body = <<>> /\ HdrIdle /\ NoteIdle /\ RunIdle /\ ToolsIdle

\* the caller's text, one more character of it
RecInput ==
    /\ recPc = "input"
    /\ Len(text) < MaxLen
    /\ \E c \in Alphabet : text' = Append(text, c)
    /\ UNCHANGED <<chunk_size, separators, stack, pieces, recPc, notRec>>

\* the outermost call: split_text_recursively(text, chunk_size, separators)
RecStart ==
    /\ recPc = "input"
    /\ stack' = <<NewFrame(text, separators)>>
    /\ recPc' = "running"
    /\ UNCHANGED <<chunk_size, text, separators, pieces, notRec>>

CanBaseCase == Running /\ Top.at = "enter" /\ Len(Top.text) <= chunk_size

CanHardSplit ==
    /\ Running /\ Top.at = "enter"
    /\ Len(Top.text) > chunk_size
    /\ PickSep(Top.text, Top.separators) = 0

CanBeginLoop ==
    /\ Running /\ Top.at = "enter"
    /\ Len(Top.text) > chunk_size
    /\ PickSep(Top.text, Top.separators) # 0

AtPart == Running /\ Top.at = "loop" /\ Top.i <= Len(Top.parts)

CanAccumulate == AtPart /\ Fits(Top.acc, Top.parts[Top.i], Top.sep, chunk_size)

CanCall ==
    /\ AtPart
    /\ ~Fits(Top.acc, Top.parts[Top.i], Top.sep, chunk_size)
    /\ Len(Top.parts[Top.i]) > chunk_size

CanStartNew ==
    /\ AtPart
    /\ ~Fits(Top.acc, Top.parts[Top.i], Top.sep, chunk_size)
    /\ Len(Top.parts[Top.i]) <= chunk_size

CanEndLoop == Running /\ Top.at = "loop" /\ Top.i > Len(Top.parts)

CanReturn == Running /\ Top.at = "return" /\ Len(stack) > 1

CanFinish == Running /\ Top.at = "return" /\ Len(stack) = 1

\* lines 168-169
RecBaseCase ==
    /\ CanBaseCase
    /\ stack' = SetTop([Top EXCEPT !.at = "return", !.chunks = BaseCase(Top.text)])
    /\ UNCHANGED <<chunk_size, text, separators, pieces, recPc, notRec>>

\* lines 178-185
RecHardSplit ==
    /\ CanHardSplit
    /\ stack' = SetTop([Top EXCEPT !.at = "return",
                                   !.chunks = HardSplit(Top.text, chunk_size)])
    /\ UNCHANGED <<chunk_size, text, separators, pieces, recPc, notRec>>

\* lines 172-176: the separator a call at "enter" chooses
ChosenSep(f) == f.separators[PickSep(f.text, f.separators)]

\* lines 172-176, 187-190
RecBeginLoop ==
    /\ CanBeginLoop
    /\ stack' = SetTop([Top EXCEPT !.at = "loop", !.sep = ChosenSep(Top),
                                   !.parts = SplitOn(Top.text, ChosenSep(Top)),
                                   !.i = 1, !.acc = LoopStart])
    /\ UNCHANGED <<chunk_size, text, separators, pieces, recPc, notRec>>

\* lines 194-196
RecAccumulate ==
    /\ CanAccumulate
    /\ stack' = SetTop([Top EXCEPT !.acc = Accumulate(@, Top.parts[Top.i], Top.sep),
                                   !.i = @ + 1])
    /\ UNCHANGED <<chunk_size, text, separators, pieces, recPc, notRec>>

\* lines 198-204: flush, then call split_text_recursively on the part
RecCall ==
    /\ CanCall
    /\ stack' = Append(SetTop([Top EXCEPT !.acc.chunks = FlushMid(Top.acc, Top.sep)]),
                       NewFrame(Top.parts[Top.i],
                                Remaining(Top.separators, Top.sep)))
    /\ UNCHANGED <<chunk_size, text, separators, pieces, recPc, notRec>>

\* lines 203-207: the inner call has returned to the loop of its caller
RecReturn ==
    /\ CanReturn
    /\ LET caller == stack[Len(stack) - 1]
           back == [caller EXCEPT
                      !.acc = [chunks |-> caller.acc.chunks \o Top.chunks,
                               current |-> <<>>, current_len |-> 0],
                      !.i = @ + 1]
       IN  stack' = Append(SubSeq(stack, 1, Len(stack) - 2), back)
    /\ UNCHANGED <<chunk_size, text, separators, pieces, recPc, notRec>>

\* lines 198-199, 208-210
RecStartNew ==
    /\ CanStartNew
    /\ stack' = SetTop([Top EXCEPT !.acc = StartNew(@, Top.parts[Top.i], Top.sep),
                                   !.i = @ + 1])
    /\ UNCHANGED <<chunk_size, text, separators, pieces, recPc, notRec>>

\* lines 212-217
RecEndLoop ==
    /\ CanEndLoop
    /\ stack' = SetTop([Top EXCEPT !.at = "return",
                                   !.chunks = FinalFlush(Top.acc, Top.sep)])
    /\ UNCHANGED <<chunk_size, text, separators, pieces, recPc, notRec>>

\* the outermost call returns to its caller
RecFinish ==
    /\ CanFinish
    /\ pieces' = Top.chunks
    /\ stack' = <<>>
    /\ recPc' = "done"
    /\ UNCHANGED <<chunk_size, text, separators, notRec>>

NextRec ==
    \/ RecInput
    \/ RecStart
    \/ RecBaseCase
    \/ RecHardSplit
    \/ RecBeginLoop
    \/ RecAccumulate
    \/ RecCall
    \/ RecReturn
    \/ RecStartNew
    \/ RecEndLoop
    \/ RecFinish

SpecRec == InitRec /\ [][NextRec]_vars

\* the call-by-call run returns what the function returns
RecAgrees ==
    recPc = "done" => pieces = SplitTextRecursively(text, chunk_size, separators)

(***************************************************************************)
(* Properties of split_text_recursively, checked under SpecRec.            *)
(***************************************************************************)
\* every list of pieces a call holds: flushed in its loop, or returned
HeldChunks ==
    {stack[k].acc.chunks : k \in 1..Len(stack)}
    \cup {stack[k].chunks : k \in 1..Len(stack)}
    \cup {pieces}

\* C2: every piece split_text_recursively produces has length <= chunk_size,
\* whether greedy accumulation, a recursive call or the hard cut produced it
\* (in every call of the run, at every point of it, and in the final list).
C2_PiecesWithinSize ==
    \A chunks \in HeldChunks :
        \A k \in 1..Len(chunks) : Len(chunks[k]) <= chunk_size

\* C2 witness: an inner call has returned several hard-cut pieces while its
\* caller holds a buffer it flushed, as long as chunk_size allows.
C2_Witness ==
    /\ Len(stack) = 2
    /\ Top.at = "return" /\ Top.sep = <<>> /\ Len(Top.text) > chunk_size
    /\ Len(Top.chunks) >= 2
    /\ \E k \in 1..Len(stack[1].acc.chunks) :
           Len(stack[1].acc.chunks[k]) = chunk_size

RECURSIVE StepBound(_, _)
\* a bound on the steps of a call on a text of L characters with n separators:
\* one to enter, at most L + 1 parts with one inner call each, two to leave
StepBound(L, n) ==
    IF n = 0 THEN 2
    ELSE 3 + (L + 1) * (1 + StepBound(L, n - 1))

\* the steps frame k may still take, the calls it may still make included
FrameRank(k) ==
    LET f == stack[k]
        inner == 1 + StepBound(Len(f.text), Len(f.separators) - 1)
    IN  IF f.at = "enter" THEN StepBound(Len(f.text), Len(f.separators))
        ELSE IF f.at = "return" THEN 1
        ELSE IF k < Len(stack) THEN (Len(f.parts) - f.i) * inner + 2
        ELSE (Len(f.parts) - f.i + 1) * inner + 2

RECURSIVE RankFrom(_)
RankFrom(k) == IF k > Len(stack) THEN 0 ELSE FrameRank(k) + RankFrom(k + 1)
Rank == RankFrom(1)

\* a running call can always take its next step
CanStep ==
    \/ CanBaseCase \/ CanHardSplit \/ CanBeginLoop \/ CanAccumulate \/ CanCall
    \/ CanStartNew \/ CanEndLoop \/ CanReturn \/ CanFinish

\* each inner call got exactly the separators after the one its caller chose,
\* a strictly shorter list
SeparatorsShrink ==
    \A k \in 2..Len(stack) :
        LET caller == stack[k - 1]
        IN  /\ Len(stack[k].separators) < Len(caller.separators)
            /\ \E j \in 1..Len(caller.separators) :
                   /\ caller.separators[j] = caller.sep
                   /\ \A h \in 1..(j - 1) : caller.separators[h] # caller.sep
                   /\ stack[k].separators
                        = SubSeq(caller.separators, j + 1, Len(caller.separators))

\* a call none of whose separators occurs in its text makes no inner call
NoSeparatorNoCall ==
    \A k \in 1..Len(stack) :
        (Len(stack[k].text) > chunk_size
         /\ PickSep(stack[k].text, stack[k].separators) = 0)
        => /\ k = Len(stack)
           /\ stack[k].at = "return" => stack[k].chunks
                                          = HardSplit(stack[k].text, chunk_size)

\* C3: split_text_recursively terminates: a running call is never stuck and
\* every step lowers a natural-number rank, because each inner call is made
\* with the separators after the chosen one (a strictly shorter list) and a
\* call with no applicable separator ends in the hard cut without recursing.
C3_Terminates ==
    [][/\ recPc' = "running" => CanStep'
       /\ recPc = "running" => Rank' < Rank
       /\ SeparatorsShrink'
       /\ NoSeparatorNoCall']_vars

\* C3 witness: two nested inner calls, the innermost one with no separator
\* left that applies, about to be hard-cut.
C3_Witness ==
    /\ Len(stack) = 3
    /\ CanHardSplit
    /\ Len(stack[1].separators) = 4

RECURSIVE Covers(_, _)
\* t is the pieces ps in order, with only whitespace before, between and
\* after them
Covers(t, ps) ==
    IF ps = <<>> THEN Strip(t) = <<>>
    ELSE \E k \in 0..Len(t) :
            /\ Strip(SubSeq(t, 1, k)) = <<>>
            /\ MatchAt(t, Head(ps), k + 1)
            /\ Covers(SubSeq(t, k + 1 + Len(Head(ps)), Len(t)), Tail(ps))

\* C5: the returned pieces, in order, reproduce the characters of the text,
\* nothing lost and nothing duplicated but whitespace at piece boundaries.
C5_PiecesReproduceText ==
    recPc = "done" => Covers(text, pieces)

\* C5: the case of the claim, a text cut into several pieces
C5_Witness ==
    /\ recPc = "done" /\ Len(pieces) >= 2
    /\ Covers(text, pieces)
    /\ \E k \in 1..Len(pieces) : Len(pieces[k]) >= 2

(***************************************************************************)
(* SpecHeaders: split_by_markdown_headers executed line by line.           *)
(***************************************************************************)
\* the lines a body is made of: headings of three levels (the third is not
\* tracked under the levels of Example A), two titles, text, blank
HeaderLines ==
    { <<HASH, SP, "A">>, <<HASH, SP, "B">>,
      <<HASH, HASH, SP, "A">>, <<HASH, HASH, SP, "B">>,
      <<HASH, HASH, HASH, SP, "A">>,
      <<"t">>, <<>> }

\* the levels lists tried: the default, and the one of the spec's Example A
LevelLists == {DefaultLevels, <<1, 2>>}

LineCount(b) == Len(SplitOn(b, <<NL>>))

InitHeaders ==
    /\ levels \in LevelLists
    /\ body \in HeaderLines
    /\ lines = <<>>
    /\ lineNo = 0
    /\ hdr = HeadersStart
    /\ secAt = <<>>
    /\ hdrPc = "input"
    /\ chunk_size = 1 /\ RecIdle /\ NoteIdle /\ RunIdle /\ ToolsIdle

\* the caller's text, one more line of it
HdrInput ==
    /\ hdrPc = "input"
    /\ LineCount(body) < MaxLines
    /\ \E line \in HeaderLines : body' = body \o <<NL>> \o line
    /\ UNCHANGED <<levels, lines, lineNo, hdr, secAt, hdrPc, notHdr>>

\* lines 119-123: the call, up to text.split("\n")
HdrStart ==
    /\ hdrPc = "input"
    /\ lines' = SplitOn(body, <<NL>>)
    /\ lineNo' = 0
    /\ hdr' = HeadersStart
    /\ hdrPc' = "loop"
    /\ UNCHANGED <<body, levels, secAt, notHdr>>

\* the history of a step: a section emitted after n lines is recorded at n
Emitted(before, after, n) ==
    IF Len(after.sections) > Len(before.sections) THEN Append(secAt, n) ELSE secAt

\* lines 123-141: one line of the loop
HdrLine ==
    /\ hdrPc = "loop"
    /\ lineNo < Len(lines)
    /\ hdr' = HeaderStep(hdr, lines[lineNo + 1], levels)
    /\ secAt' = Emitted(hdr, hdr', lineNo)
    /\ lineNo' = lineNo + 1
    /\ UNCHANGED <<body, levels, lines, hdrPc, notHdr>>

\* lines 143-148: the last section, and the return
HdrFinish ==
    /\ hdrPc = "loop"
    /\ lineNo = Len(lines)
    /\ hdr' = [hdr EXCEPT !.sections = FlushLines(hdr)]
    /\ secAt' = Emitted(hdr, hdr', lineNo)
    /\ hdrPc' = "done"
    /\ UNCHANGED <<body, levels, lines, lineNo, notHdr>>

NextHeaders ==
    \/ HdrInput
    \/ HdrStart
    \/ HdrLine
    \/ HdrFinish

SpecHeaders == InitHeaders /\ [][NextHeaders]_vars

\* the line-by-line run returns what the function returns
HeadersAgree ==
    hdrPc = "done" => hdr.sections = SplitByMarkdownHeaders(body, levels)

(***************************************************************************)
(* Properties of split_by_markdown_headers, checked under SpecHeaders.     *)
(***************************************************************************)
\* the headings of level l among the first n lines that have had no heading
\* of a shallower tracked level after them (within the first n lines)
LiveHeadings(l, n) ==
    {i \in 1..n :
        /\ IsTrackedHeading(lines[i], levels)
        /\ HeadingLevel(lines[i]) = l
        /\ ~\E j \in (i + 1)..n :
               /\ IsTrackedHeading(lines[j], levels)
               /\ HeadingLevel(lines[j]) < l}

\* the entries of a breadcrumb, order aside
Entries(headers) == {headers[k] : k \in 1..Len(headers)}

\* the breadcrumb the claim gives a section that follows the first n lines
ExpectedEntries(n) ==
    {<<l, HeadingTitle(lines[Max(LiveHeadings(l, n))])>> :
        l \in {m \in LevelSet(levels) : LiveHeadings(m, n) # {}}}

\* the body of the spec's Example A, "text1" and "text2" shortened to "t"
ExampleA == <<HASH, SP, "A", NL, "t", NL, HASH, HASH, SP, "B", NL, "t">>

ExampleASections ==
    << [content |-> <<"t">>, headers |-> << <<1, <<"A">> >> >>],
       [content |-> <<"t">>, headers |-> << <<1, <<"A">> >>, <<2, <<"B">> >> >>] >>

\* C6: the breadcrumb of each emitted Section holds, for each tracked level,
\* the title of the most recent heading of that level that precedes the
\* Section and has had no heading of a shallower tracked level after it, and
\* nothing else, one entry per level; Example A gives {h1:A}/text1 and
\* {h1:A,h2:B}/text2.
C6_BreadcrumbIsNearestHeadings ==
    /\ Len(secAt) = Len(hdr.sections)
    /\ \A k \in 1..Len(hdr.sections) :
           /\ Entries(hdr.sections[k].headers) = ExpectedEntries(secAt[k])
           /\ Cardinality(Entries(hdr.sections[k].headers))
                = Len(hdr.sections[k].headers)
    /\ (hdrPc = "done" /\ body = ExampleA /\ levels = <<1, 2>>)
           => hdr.sections = ExampleASections

\* C6 witness: a section that follows a heading of level 2 and a later
\* heading of level 1: its breadcrumb has the level 1 title and no level 2.
C6_Witness ==
    /\ hdrPc = "done"
    /\ \E k \in 1..Len(hdr.sections) :
           /\ HasKey(hdr.sections[k].headers, 1)
           /\ ~HasKey(hdr.sections[k].headers, 2)
           /\ \E i, j \in 1..secAt[k] :
                  /\ i < j
                  /\ IsTrackedHeading(lines[i], levels)
                  /\ HeadingLevel(lines[i]) = 2
                  /\ IsTrackedHeading(lines[j], levels)
                  /\ HeadingLevel(lines[j]) = 1

(***************************************************************************)
(* SpecNote: split_note as one step on a body and a chunk_size.            *)
(***************************************************************************)
\* the lines a body is made of: two headings, text without and with a
\* separator, blank
NoteLines ==
    { <<HASH, SP, "A">>, <<HASH, HASH, SP, "B">>, <<"t">>, <<"a", SP, "a">>, <<>> }

InitNote ==
    /\ chunk_size \in 1..MaxChunk
    /\ body \in NoteLines
    /\ note_chunks = <<>>
    /\ notePc = "input"
    /\ RecIdle /\ HdrIdle /\ RunIdle /\ ToolsIdle

\* the caller's body, one more line of it
NoteInput ==
    /\ notePc = "input"
    /\ LineCount(body) < MaxLines
    /\ \E line \in NoteLines : body' = body \o <<NL>> \o line
    /\ UNCHANGED <<chunk_size, note_chunks, notePc, notNote>>

\* lines 233-276: split_note(body, chunk_size)
NoteSplit ==
    /\ notePc = "input"
    /\ note_chunks' = SplitNote(body, chunk_size)
    /\ notePc' = "done"
    /\ UNCHANGED <<chunk_size, body, notNote>>

NextNote ==
    \/ NoteInput
    \/ NoteSplit

SpecNote == InitNote /\ [][NextNote]_vars

(***************************************************************************)
(* Properties of split_note, checked under SpecNote.                       *)
(***************************************************************************)
\* C1: every chunk split_note returns has length <= chunk_size, the
\* breadcrumb prefix and the two-character joiners counted.
C1_ChunksWithinSize ==
    notePc = "done" =>
        \A k \in 1..Len(note_chunks) : Len(note_chunks[k]) <= chunk_size

\* C1 witness: a chunk made of two sections merged with the joiner, one of
\* them with a breadcrumb, that leaves no room for more: two characters
\* more and the second section would not have been merged.
C1_Witness ==
    /\ notePc = "done"
    /\ \E k \in 1..Len(note_chunks) :
           /\ Contains(note_chunks[k], Joiner)
           /\ Contains(note_chunks[k], <<"]", NL>>)
           /\ Len(note_chunks[k]) + 2 = chunk_size

\* the bodies process_file passes to split_note: trimmed and not empty
TrimmedBody == body # <<>> /\ Strip(body) = body

\* C4: split_note returns only chunks that are non-empty after trimming,
\* with Sections and without (stated for the bodies process_file passes,
\* body.strip() of a body that is not blank).
C4_ChunksNonEmpty ==
    (notePc = "done" /\ TrimmedBody) =>
        \A k \in 1..Len(note_chunks) : Strip(note_chunks[k]) # <<>>

(***************************************************************************)
(* Spec: one batch run.  The main task runs _run, process_file and         *)
(* summarize_chunks; it is suspended only at the generation calls.  The    *)
(* map calls of asyncio.gather are tasks of their own: they make progress  *)
(* while the main task is suspended, and calls that a failed gather left   *)
(* behind stay in flight until they complete or asyncio.run ends.          *)
(***************************************************************************)
Path(stem, suffix) == [stem |-> stem, suffix |-> suffix]

\* a file that is not there, and files that are
Absent == [exists |-> FALSE, read_error |-> "", write_error |-> "", content |-> <<>>]
File(content) ==
    [exists |-> TRUE, read_error |-> "", write_error |-> "", content |-> content]

TitleYaml == <<"t", COLON, SP, "x">>
HumanYaml == SummaryKey \o <<COLON, SP, "h">>
AiYaml == SummaryLine(<<"o">>)
OneBody == <<"a", NL>>
LongBody == <<"a", SP, "b", SP, "c", NL>>

\* the files of the model: missing, not markdown, unreadable, without
\* frontmatter, with frontmatter that does not parse, with frontmatter that
\* is no mapping, with a blank body, with a human summary, with an [AI]
\* summary and one chunk, without summary and several chunks, and one that
\* cannot be written
Vault ==
    { <<Path("missing", ".md"), Absent>>,
      <<Path("notes", ".txt"), File(FileContent(TitleYaml, OneBody))>>,
      <<Path("locked", ".md"),
        [File(<<>>) EXCEPT !.read_error = "Permission denied"]>>,
      <<Path("plain", ".md"), File(OneBody)>>,
      <<Path("broken", ".md"), File(FileContent(<<"{">>, OneBody))>>,
      <<Path("scalar", ".md"), File(FileContent(<<"x">>, OneBody))>>,
      <<Path("blank", ".md"), File(FileContent(TitleYaml, <<SP, NL>>))>>,
      <<Path("human", ".md"), File(FileContent(HumanYaml, OneBody))>>,
      <<Path("one", ".md"), File(FileContent(AiYaml, OneBody))>>,
      <<Path("long", ".md"), File(FileContent(TitleYaml, LongBody))>>,
      <<Path("readonly", ".md"),
        [File(FileContent(TitleYaml, OneBody))
            EXCEPT !.write_error = "Permission denied"]>> }

Paths == {e[1] : e \in Vault}
\* the file at a path before the run
Original(p) == (CHOOSE e \in Vault : e[1] = p)[2]
InitFs == [p \in Paths |-> Original(p)]

\* the chunk sizes of the model: LongBody is three chunks or two
ChunkSizes == {1, 3}

\* what the generation service answers, and how a call fails
Responses == { <<"x">>, <<QUOTE, "y", QUOTE>> }
Failures == {"timeout"}

Init ==
    /\ chunk_size \in ChunkSizes
    /\ dry_run \in BOOLEAN
    /\ files = <<>>
    /\ fs = InitFs
    /\ fileNo = 0
    /\ results = <<>>
    /\ runPc = "file"
    /\ job = NoJob
    /\ calls = <<>>
    /\ arrival = <<>>
    /\ given = <<>>
    /\ writes = <<>>
    /\ RecIdle /\ body = <<>> /\ HdrIdle /\ NoteIdle /\ ToolsIdle

\* the result records (lines 392-430, 452, 455); an error message is the
\* sequence of its fragments
ErrorRecord(file, error) == [file |-> file, error |-> error]
SkipRecord(file, summary) ==
    [file |-> file, skipped |-> TRUE,
     reason |-> "Human summary exists (does not start with [AI])",
     summary |-> summary]
DoneRecord(file, chunks, old_summary, summary, updated) ==
    [file |-> file, chunks |-> Len(chunks), old_summary |-> old_summary,
     new_summary |-> AiMarker \o <<SP>> \o summary, updated |-> updated]

\* line 422: f"Summarization failed: {e}"
SummarizationFailed(e) == <<"Summarization failed: ", e>>

\* a generation call (lines 338-349): the document (file number), the kind,
\* the position of the chunk (0 for stuff and reduce), the prompt, and how
\* it stands: "inflight", "ok" with the response of the service, "failed"
\* with the error, "cancelled"
NewCall(d, kind, position, prompt) ==
    [doc |-> d, kind |-> kind, position |-> position, prompt |-> prompt,
     status |-> "inflight", response |-> <<>>, error |-> ""]

\* line 349: what _call_ollama returns
CallResult(c) == CleanLlmOutput(c.response)

\* asyncio.run ends: the tasks still pending are cancelled
Cancelled(cs) ==
    [i \in 1..Len(cs) |->
        IF cs[i].status = "inflight" THEN [cs[i] EXCEPT !.status = "cancelled"]
        ELSE cs[i]]

\* the file in progress
CurNo == fileNo + 1
CurPath == files[CurNo]
AtFile == runPc = "file" /\ fileNo < Len(files)
Suspended == runPc \in {"stuff", "gather", "reduce"}

\* the calls of document d of a kind, as positions in calls
CallsOf(d, kind) ==
    {i \in 1..Len(calls) : calls[i].doc = d /\ calls[i].kind = kind}

\* the map call of document d for the chunk at a position
MapCall(d, position) ==
    calls[CHOOSE i \in CallsOf(d, "map") : calls[i].position = position]

\* the main task goes on with the next file (lines 460, 449)
Finish(cs, record) ==
    /\ results' = Append(results, record)
    /\ fileNo' = fileNo + 1
    /\ runPc' = "file"
    /\ job' = NoJob
    /\ arrival' = <<>>
    /\ calls' = cs

\* an exception nothing catches leaves _run: no report is printed
Crash(cs) ==
    /\ runPc' = "crashed"
    /\ calls' = Cancelled(cs)
    /\ job' = NoJob
    /\ arrival' = <<>>
    /\ UNCHANGED <<results, fileNo>>

PersistIgnoringDryRun(cs, summary) ==
    IF fs[CurPath].write_error # ""
    THEN Crash(cs) /\ UNCHANGED <<fs, writes>>
    ELSE /\ fs' = [fs EXCEPT ![CurPath].content =
                     FileContent(UpdateSummaryInYaml(job.yaml_text, summary),
                                 job.body)]
         /\ writes' = Append(writes, CurNo)
         /\ Finish(cs, DoneRecord(CurPath, job.chunks, job.old_summary,
                                  summary, TRUE))

\* lines 424-438: the result, and the file rewritten unless --dry-run
Persist(cs, summary) ==
    IF dry_run
    THEN /\ Finish(cs, DoneRecord(CurPath, job.chunks, job.old_summary,
                                  summary, FALSE))
         /\ UNCHANGED <<fs, writes>>
    ELSE IF fs[CurPath].write_error # ""
    THEN Crash(cs) /\ UNCHANGED <<fs, writes>>
    ELSE /\ fs' = [fs EXCEPT ![CurPath].content =
                     FileContent(UpdateSummaryInYaml(job.yaml_text, summary),
                                 job.body)]
         /\ writes' = Append(writes, CurNo)
         /\ Finish(cs, DoneRecord(CurPath, job.chunks, job.old_summary,
                                  summary, TRUE))

CaughtThenPersist(cs, e) == Persist(cs, <<>>)

CaughtNoRecord(cs, e) ==
    /\ fileNo' = fileNo + 1
    /\ runPc' = "file"
    /\ job' = NoJob
    /\ arrival' = <<>>
    /\ calls' = cs
    /\ UNCHANGED <<results, fs, writes>>

\* lines 421-422: except Exception as e
Caught(cs, e) ==
    /\ Finish(cs, ErrorRecord(CurPath, SummarizationFailed(e)))
    /\ UNCHANGED <<fs, writes>>

\* what no step of a run changes
runArgs == <<chunk_size, dry_run, files, notRun>>

\* line 449: the next file of the batch; the files argument is one to
\* MaxDocs paths (nargs="+"), no path twice, and files is the part of it the
\* loop has reached
RunInput ==
    /\ runPc = "file"
    /\ fileNo = Len(files)
    /\ Len(files) < MaxDocs
    /\ \E p \in Paths \ {files[i] : i \in 1..Len(files)} :
          files' = Append(files, p)
    /\ UNCHANGED <<chunk_size, dry_run, fs, fileNo, results, runPc, job, calls,
                   arrival, given, writes, notRun>>

\* lines 451-453
RunFileNotFound ==
    /\ AtFile
    /\ ~fs[CurPath].exists
    /\ Finish(calls, ErrorRecord(CurPath, <<"File not found">>))
    /\ UNCHANGED <<fs, given, writes, runArgs>>

\* lines 454-456
RunNotMarkdown ==
    /\ AtFile
    /\ fs[CurPath].exists
    /\ CurPath.suffix # ".md"
    /\ Finish(calls, ErrorRecord(CurPath, <<"Not a markdown file">>))
    /\ UNCHANGED <<fs, given, writes, runArgs>>

\* line 459: process_file is called
Opened == AtFile /\ fs[CurPath].exists /\ CurPath.suffix = ".md"

\* lines 389-392
ProcReadFails ==
    /\ Opened
    /\ fs[CurPath].read_error # ""
    /\ Finish(calls, ErrorRecord(CurPath, <<fs[CurPath].read_error>>))
    /\ UNCHANGED <<fs, given, writes, runArgs>>

\* line 394
Parsed == ExtractFrontmatterAndBody(fs[CurPath].content)
WasRead == Opened /\ fs[CurPath].read_error = ""

\* lines 395-396
ProcNoFrontmatter ==
    /\ WasRead
    /\ Parsed.fm.kind = "None"
    /\ Finish(calls, ErrorRecord(CurPath, <<"No valid frontmatter found">>))
    /\ UNCHANGED <<fs, given, writes, runArgs>>

ProcEmptyBodyAborts ==
    /\ WasRead
    /\ Parsed.fm.kind # "None"
    /\ Strip(Parsed.body) = <<>>
    /\ Crash(calls)
    /\ UNCHANGED <<fs, given, writes, runArgs>>

\* lines 397-398
ProcEmptyBody ==
    /\ WasRead
    /\ Parsed.fm.kind # "None"
    /\ Strip(Parsed.body) = <<>>
    /\ Finish(calls, ErrorRecord(CurPath, <<"No content to summarize">>))
    /\ UNCHANGED <<fs, given, writes, runArgs>>

HasBody == WasRead /\ Parsed.fm.kind # "None" /\ Strip(Parsed.body) # <<>>

\* line 400 when the frontmatter is no mapping: fm.get raises AttributeError
ProcNotMapping ==
    /\ HasBody
    /\ Parsed.fm.kind # "mapping"
    /\ Crash(calls)
    /\ UNCHANGED <<fs, given, writes, runArgs>>

\* line 400
OldSummary == DictGet(Parsed.fm, SummaryKey, StrValue(<<>>))

HumanSummaryMarked(v) ==
    /\ v.type = "str"
    /\ v.val # <<>>
    /\ MatchAt(v.val, AiMarker, 1)

\* line 403: old_summary and not str(old_summary).startswith("[AI]")
HumanSummary(v) ==
    /\ v.type = "str"
    /\ v.val # <<>>
    /\ ~MatchAt(v.val, AiMarker, 1)

\* lines 403-409
ProcSkipHuman ==
    /\ HasBody
    /\ Parsed.fm.kind = "mapping"
    /\ HumanSummary(OldSummary)
    /\ Finish(calls, SkipRecord(CurPath, OldSummary))
    /\ UNCHANGED <<fs, given, writes, runArgs>>

ToSummarize ==
    /\ HasBody
    /\ Parsed.fm.kind = "mapping"
    /\ ~HumanSummary(OldSummary)

\* line 412
NoteChunks == SplitNote(Strip(Parsed.body), chunk_size)

StartJob(chunks) ==
    [yaml_text |-> Parsed.yaml_text, body |-> Parsed.body,
     old_summary |-> OldSummary, chunks |-> chunks,
     section_summaries |-> <<>>, exc |-> ""]

\* lines 412-420, 356-359: one chunk, the stuff call is issued and awaited
ProcStuff ==
    /\ ToSummarize
    /\ UsesStuff(NoteChunks)
    /\ job' = StartJob(NoteChunks)
    /\ given' = Append(given, [doc |-> CurNo, chunks |-> NoteChunks])
    /\ calls' = Append(calls,
                       NewCall(CurNo, "stuff", 0, StuffPrompt(NoteChunks[1])))
    /\ runPc' = "stuff"
    /\ UNCHANGED <<fs, fileNo, results, arrival, writes, runArgs>>

\* lines 412-420, 362-366: several chunks.  gather makes a task of every map
\* call and suspends the main task; every task runs up to its request
\* before anything else runs, so the calls are issued together, in the order
\* of the chunks.  (lines 415-416: no chunk, no call.)
ProcMap ==
    /\ ToSummarize
    /\ ~UsesStuff(NoteChunks)
    /\ IF NoteChunks = <<>>
       THEN /\ Finish(calls,
                      ErrorRecord(CurPath, <<"No content after splitting">>))
            /\ UNCHANGED <<fs, given, writes, runArgs>>
       ELSE /\ job' = StartJob(NoteChunks)
            /\ given' = Append(given, [doc |-> CurNo, chunks |-> NoteChunks])
            /\ calls' = calls \o [k \in 1..Len(NoteChunks) |->
                            NewCall(CurNo, "map", k, MapPrompt(NoteChunks[k]))]
            /\ runPc' = "gather"
            /\ UNCHANGED <<fs, fileNo, results, arrival, writes, runArgs>>

\* the call the main task awaits itself
Awaited(kind) ==
    CHOOSE i \in CallsOf(CurNo, kind) : calls[i].status = "inflight"

Settle(i, status, response, error) ==
    [calls EXCEPT ![i].status = status, ![i].response = response,
                  ![i].error = error]

\* lines 357-359, 420-438: the stuff call returns
StuffReturn ==
    /\ runPc = "stuff"
    /\ \E r \in Responses :
          LET cs == Settle(Awaited("stuff"), "ok", r, "")
          IN  Persist(cs, CallResult(cs[Awaited("stuff")]))
    /\ UNCHANGED <<given, runArgs>>

\* lines 357-359, 421-422: the stuff call fails
StuffFail ==
    /\ runPc = "stuff"
    /\ \E e \in Failures :
          Caught(Settle(Awaited("stuff"), "failed", <<>>, e), e)
    /\ UNCHANGED <<given, runArgs>>

\* a map call in flight, of the document in progress or of an earlier one
MapInFlight(i) ==
    /\ i \in 1..Len(calls)
    /\ calls[i].kind = "map"
    /\ calls[i].status = "inflight"

Arrived(i) ==
    IF calls[i].doc = CurNo THEN Append(arrival, calls[i].position) ELSE arrival

\* lines 342-349 in a task of gather: the response is there
MapReturn ==
    /\ Suspended
    /\ \E i \in 1..Len(calls), r \in Responses :
          /\ MapInFlight(i)
          /\ calls' = Settle(i, "ok", r, "")
          /\ arrival' = Arrived(i)
    /\ UNCHANGED <<fs, fileNo, results, runPc, job, given, writes, runArgs>>

\* line 342 in a task of gather: the call raises; the first exception among
\* its tasks is the one gather raises
MapFail ==
    /\ Suspended
    /\ \E i \in 1..Len(calls), e \in Failures :
          /\ MapInFlight(i)
          /\ calls' = Settle(i, "failed", <<>>, e)
          /\ arrival' = Arrived(i)
          /\ job' = IF calls[i].doc = CurNo /\ job.exc = ""
                    THEN [job EXCEPT !.exc = e] ELSE job
    /\ UNCHANGED <<fs, fileNo, results, runPc, given, writes, runArgs>>

GatherSettled(d) ==
    \A i \in CallsOf(d, "map") : calls[i].status \in {"ok", "failed"}

GatherDoneAtFirst(d) == \E i \in CallsOf(d, "map") : calls[i].status = "ok"

\* line 366: gather has a result when every task returned
GatherDone(d) == \A i \in CallsOf(d, "map") : calls[i].status = "ok"

GatherResultsByArrival(d) ==
    [k \in 1..Cardinality(CallsOf(d, "map")) |->
        CallResult(MapCall(d, arrival[k]))]

\* line 366: the results of gather, in the order of the awaitables
GatherResults(d) ==
    [k \in 1..Cardinality(CallsOf(d, "map")) |-> CallResult(MapCall(d, k))]

\* lines 366-374: gather returns, the reduce call is issued and awaited
GatherReturn ==
    /\ runPc = "gather"
    /\ GatherDone(CurNo)
    /\ job' = [job EXCEPT !.section_summaries = GatherResults(CurNo)]
    /\ calls' = Append(calls,
                       NewCall(CurNo, "reduce", 0,
                               CombinePrompt(Combined(GatherResults(CurNo)))))
    /\ runPc' = "reduce"
    /\ UNCHANGED <<fs, fileNo, results, arrival, given, writes, runArgs>>

\* lines 366, 421-422: gather raises; the other tasks are left running
GatherRaise ==
    /\ runPc = "gather"
    /\ job.exc # ""
    /\ Caught(calls, job.exc)
    /\ UNCHANGED <<given, runArgs>>

\* lines 372-374, 420-438: the reduce call returns
ReduceReturn ==
    /\ runPc = "reduce"
    /\ \E r \in Responses :
          LET cs == Settle(Awaited("reduce"), "ok", r, "")
          IN  Persist(cs, CallResult(cs[Awaited("reduce")]))
    /\ UNCHANGED <<given, runArgs>>

\* lines 372-374, 421-422: the reduce call fails
ReduceFail ==
    /\ runPc = "reduce"
    /\ \E e \in Failures :
          Caught(Settle(Awaited("reduce"), "failed", <<>>, e), e)
    /\ UNCHANGED <<given, runArgs>>

\* line 469, and asyncio.run at line 496: the report, the end of the loop
RunFinish ==
    /\ runPc = "file"
    /\ files # <<>>
    /\ fileNo = Len(files)
    /\ runPc' = "done"
    /\ calls' = Cancelled(calls)
    /\ UNCHANGED <<fs, fileNo, results, job, arrival, given, writes, runArgs>>

Next ==
    \/ RunInput
    \/ RunFileNotFound
    \/ RunNotMarkdown
    \/ ProcReadFails
    \/ ProcNoFrontmatter
    \/ ProcEmptyBody
    \/ ProcNotMapping
    \/ ProcSkipHuman
    \/ ProcStuff
    \/ ProcMap
    \/ StuffReturn
    \/ StuffFail
    \/ MapReturn
    \/ MapFail
    \/ GatherReturn
    \/ GatherRaise
    \/ ReduceReturn
    \/ ReduceFail
    \/ RunFinish

Spec == Init /\ [][Next]_vars

(***************************************************************************)
(* Properties of summarize_chunks and process_file, checked under Spec.    *)
(* given[g] is one call of summarize_chunks: its document and its chunks.  *)
(***************************************************************************)
Count(d, kind) == Cardinality(CallsOf(d, kind))

\* summarize_chunks has returned or raised for document d
Ended(d) == d <= fileNo \/ runPc = "crashed"

MapFailed(d) == \E i \in CallsOf(d, "map") : calls[i].status = "failed"
MapsOk(d) == \A i \in CallsOf(d, "map") : calls[i].status = "ok"

\* C7 as stated: once summarize_chunks has ended, one chunk made exactly one
\* stuff call and no map or reduce call, and N > 1 chunks made exactly N map
\* calls and exactly one reduce call (and no stuff call).
C7_CallCounts ==
    \A g \in 1..Len(given) :
        LET d == given[g].doc
            N == Len(given[g].chunks)
        IN  Ended(d) =>
              /\ N = 1 => /\ Count(d, "stuff") = 1
                          /\ Count(d, "map") = 0
                          /\ Count(d, "reduce") = 0
              /\ N > 1 => /\ Count(d, "map") = N
                          /\ Count(d, "reduce") = 1
                          /\ Count(d, "stuff") = 0

\* C7 amended: one chunk makes exactly one stuff call and no map or reduce
\* call; N > 1 chunks make no stuff call and exactly N map calls, one per
\* position, followed by at most one reduce call: once summarize_chunks has
\* ended there is exactly one reduce call when every map call returned and
\* none when a map call failed.
C7_CallCountsUnlessMapFails ==
    \A g \in 1..Len(given) :
        LET d == given[g].doc
            N == Len(given[g].chunks)
        IN  /\ N = 1 => /\ Count(d, "stuff") = 1
                        /\ Count(d, "map") = 0
                        /\ Count(d, "reduce") = 0
            /\ N > 1 => /\ Count(d, "stuff") = 0
                        /\ Count(d, "map") = N
                        /\ \A k \in 1..N : \E i \in CallsOf(d, "map") :
                               calls[i].position = k
                        /\ Count(d, "reduce") <= 1
                        /\ \A i \in CallsOf(d, "reduce"), j \in CallsOf(d, "map") :
                               j < i
                        /\ Ended(d) =>
                               Count(d, "reduce") = IF MapFailed(d) THEN 0 ELSE 1

\* C7 witness: a run that has summarized a document of one chunk with its
\* stuff call and a document of several chunks with its map calls and its
\* reduce call.
C7_Witness ==
    \E g, h \in 1..Len(given) :
        /\ Ended(given[g].doc) /\ Ended(given[h].doc)
        /\ Len(given[g].chunks) = 1
        /\ \A i \in CallsOf(given[g].doc, "stuff") : calls[i].status = "ok"
        /\ Len(given[h].chunks) > 1
        /\ Count(given[h].doc, "map") = Len(given[h].chunks)
        /\ \E i \in CallsOf(given[h].doc, "reduce") : calls[i].status = "ok"

\* "Section k: " for k < 10
SectionLabel(k) ==
    <<"S", "e", "c", "t", "i", "o", "n", SP, Digits[k + 1], COLON, SP>>

\* C8: whatever the order in which the N > 1 map calls completed, the joined
\* results have length N and the result at position k is the cleaned
\* response of the call whose prompt embeds chunk k; the reduce prompt lists
\* them as "Section 1" to "Section N" in that order, each label followed by
\* the summary of the chunk at that position.
C8_ResultsByPosition ==
    /\ runPc = "reduce" =>
          /\ Len(job.section_summaries) = Len(job.chunks)
          /\ \A k \in 1..Len(job.chunks) : \E i \in CallsOf(CurNo, "map") :
                 /\ calls[i].prompt = MapPrompt(job.chunks[k])
                 /\ job.section_summaries[k] = CleanLlmOutput(calls[i].response)
    /\ \A g \in 1..Len(given) : \A r \in CallsOf(given[g].doc, "reduce") :
          LET d == given[g].doc
              chunks == given[g].chunks
              entries == SplitOn(calls[r].prompt.text, <<NL, NL>>)
          IN  /\ calls[r].prompt.template = "COMBINE_PROMPT"
              /\ Len(entries) = Len(chunks)
              /\ \A k \in 1..Len(chunks) : \E i \in CallsOf(d, "map") :
                     /\ calls[i].prompt = MapPrompt(chunks[k])
                     /\ entries[k] = SectionLabel(k)
                                       \o CleanLlmOutput(calls[i].response)

\* C8 witness: the spec's Example C: three chunks, the map calls completed
\* in the order 3, 1, 2 with different summaries for chunks 1 and 3, and the
\* results are joined.
C8_Witness ==
    /\ runPc = "reduce"
    /\ Len(job.chunks) = 3
    /\ arrival = <<3, 1, 2>>
    /\ job.section_summaries[1] # job.section_summaries[3]

\* C9: a document has a reduce call only when all its N map calls have
\* returned successfully, and none when a map call has failed.
C9_ReduceAfterAllMaps ==
    \A g \in 1..Len(given) :
        LET d == given[g].doc
        IN  /\ CallsOf(d, "reduce") # {} =>
                  /\ Len(given[g].chunks) > 1
                  /\ Count(d, "map") = Len(given[g].chunks)
                  /\ MapsOk(d)
            /\ MapFailed(d) => CallsOf(d, "reduce") = {}

\* C9 witness: the reduce call of a document of two chunks is in flight, its
\* second map call having returned before its first.
C9_Witness ==
    /\ runPc = "reduce"
    /\ arrival = <<2, 1>>
    /\ MapsOk(CurNo)
    /\ \E i \in CallsOf(CurNo, "reduce") : calls[i].status = "inflight"

CallFailed(d) ==
    \E i \in 1..Len(calls) : calls[i].doc = d /\ calls[i].status = "failed"

\* C10: when a generation call of a document has failed (stuff, map or
\* reduce) and summarize_chunks has ended, the document's record is an error
\* record with the cause of a failed call, the file was not written and has
\* its old content, and no call was issued a second time.
C10_FailureIsErrorRecord ==
    /\ \A g \in 1..Len(given) :
          LET d == given[g].doc
          IN  (Ended(d) /\ CallFailed(d)) =>
                /\ d <= Len(results)
                /\ DOMAIN results[d] = {"file", "error"}
                /\ results[d].file = files[d]
                /\ \E i \in 1..Len(calls) :
                       /\ calls[i].doc = d
                       /\ calls[i].status = "failed"
                       /\ results[d].error = <<"Summarization failed: ", calls[i].error>>
                /\ \A w \in 1..Len(writes) : writes[w] # d
                /\ fs[files[d]] = Original(files[d])
    /\ \A i, j \in 1..Len(calls) :
          (/\ calls[i].doc = calls[j].doc
           /\ calls[i].kind = calls[j].kind
           /\ calls[i].position = calls[j].position) => i = j

\* C10 witness: without --dry-run, every map call of a document returned and
\* its reduce call failed: the record is an error record.
C10_Witness ==
    /\ ~dry_run
    /\ \E d \in 1..Len(results) :
          /\ \E i \in CallsOf(d, "reduce") : calls[i].status = "failed"
          /\ MapsOk(d)
          /\ "error" \in DOMAIN results[d]

\* the call whose response is the summary: the stuff call or the reduce call
FinalKind(chunks) == IF Len(chunks) = 1 THEN "stuff" ELSE "reduce"

RunOver == runPc \in {"done", "crashed"}

\* C12: the batch run has exactly one record per identifier handled, in
\* input order, and no failure of a step of one document ends the run: when
\* the run is over every identifier has its record and the report is printed.
C12_OneRecordPerIdentifier ==
    /\ Len(results) = fileNo
    /\ \A d \in 1..Len(results) : results[d].file = files[d]
    /\ RunOver => runPc = "done" /\ Len(results) = Len(files)

\* C12 failing case: the final generation call of a document returned, the
\* write of line 435 raised, and the run ended with no record of the document.
C12_Witness ==
    /\ runPc = "crashed"
    /\ fs[CurPath].write_error # ""
    /\ \E i \in 1..Len(calls) : calls[i].doc = CurNo /\ calls[i].status = "ok"
    /\ Len(results) < Len(files)

\* a readable file with a metadata mapping, a body that is not blank, and a
\* summary that is a non-empty text not beginning with "[AI]"
HumanAuthored(f) ==
    LET parsed == ExtractFrontmatterAndBody(f.content)
        at == {i \in 1..Len(parsed.fm.entries) :
                  parsed.fm.entries[i][1] = SummaryKey}
        v == parsed.fm.entries[Max(at)][2]
    IN  /\ f.exists /\ f.read_error = ""
        /\ parsed.fm.kind = "mapping"
        /\ \E i \in 1..Len(parsed.body) : ~IsSpace(parsed.body[i])
        /\ at # {}
        /\ v.type = "str" /\ Len(v.val) > 0
        /\ ~(Len(v.val) >= 4 /\ SubSeq(v.val, 1, 4) = AiMarker)

\* a record that is neither a success nor an error
IsSkipRecord(r) ==
    /\ "skipped" \in DOMAIN r /\ r.skipped
    /\ "error" \notin DOMAIN r
    /\ "updated" \notin DOMAIN r /\ "new_summary" \notin DOMAIN r

\* C13: no step changes a file whose summary is human-authored; the step
\* that processes such a markdown file appends a skip record carrying the
\* existing value, issues no generation call and leaves every file as it is;
\* and no generation call is ever made for such a document.
C13_HumanSummaryKept ==
    [][/\ \A p \in Paths : fs'[p] # fs[p] => ~HumanAuthored(fs[p])
       /\ (AtFile /\ CurPath.suffix = ".md" /\ HumanAuthored(fs[CurPath])) =>
             /\ Len(results') = Len(results) + 1
             /\ IsSkipRecord(results'[CurNo])
             /\ results'[CurNo].file = CurPath
             /\ results'[CurNo].summary =
                    DictGet(ExtractFrontmatterAndBody(fs[CurPath].content).fm,
                            SummaryKey, NullValue)
             /\ calls' = calls
             /\ fs' = fs /\ writes' = writes
       /\ \A i \in 1..Len(calls') :
             (i > Len(calls) \/ files' # files) =>
                 ~HumanAuthored(fs[files'[calls'[i].doc]])]_vars

\* C13 witness: a document with a human-authored summary was processed
\* without --dry-run; its record is a skip, it has no call, its file is as
\* it was.
C13_Witness ==
    /\ ~dry_run
    /\ \E d \in 1..Len(results) :
          /\ HumanAuthored(Original(files[d]))
          /\ IsSkipRecord(results[d])
          /\ fs[files[d]] = Original(files[d])
          /\ \A i \in 1..Len(calls) : calls[i].doc # d

(***************************************************************************)
(* SpecYaml: update_summary_in_yaml (lines 296-320) applied to a metadata  *)
(* block, and again to the block it returned, as successive runs of        *)
(* process_file do (lines 394, 433).                                       *)
(***************************************************************************)
\* the lines of the blocks: another field, a human and an empty summary, a
\* link field, an indented continuation line of a multi-line value, and the
\* line update_summary_in_yaml itself writes
YamlLines ==
    { TitleYaml, HumanYaml, SummaryKey \o <<COLON>>,
      <<"T", "O", "P", "I", "C", COLON, SP, "y">>, <<SP, SP, "c">>, AiYaml }

\* the new values: plain, with characters to escape, of two lines
Summaries == { <<"x">>, <<"a", QUOTE, BACKSLASH>>, <<"a", NL, "b">> }

YamlBlocks ==
    { Join(ls, <<NL>>) :
        ls \in UNION {[1..n -> YamlLines] : n \in 0..MaxYamlLines} }

InitYaml ==
    /\ yaml_text \in YamlBlocks
    /\ new_summary \in Summaries
    /\ rewrites = <<>>
    /\ MainIdle /\ BfsIdle /\ DedupeIdle /\ CleanIdle

\* line 433 in a first run
YamlUpdate ==
    /\ rewrites = <<>>
    /\ rewrites' = <<UpdateSummaryInYaml(yaml_text, new_summary)>>
    /\ UNCHANGED <<yaml_text, new_summary, notYaml>>

\* line 433 in a later run, on the block the run before wrote
YamlUpdateAgain ==
    /\ rewrites # <<>>
    /\ Len(rewrites) < MaxRewrites
    /\ rewrites' =
           Append(rewrites,
                  UpdateSummaryInYaml(rewrites[Len(rewrites)], new_summary))
    /\ UNCHANGED <<yaml_text, new_summary, notYaml>>

NextYaml == YamlUpdate \/ YamlUpdateAgain

SpecYaml == InitYaml /\ [][NextYaml]_vars

\* C14: rewriting twice with the same value gives the block that rewriting
\* once gives: every later rewrite returns the block of the first.
C14_RewriteIdempotent ==
    \A r \in 2..Len(rewrites) : rewrites[r] = rewrites[1]

\* C14 failing case: the value has two lines, and the second rewrite
\* returned a block that differs from the first.
C14_Witness ==
    /\ \E i \in 1..Len(new_summary) : new_summary[i] = NL
    /\ Len(rewrites) >= 2
    /\ rewrites[2] # rewrites[1]
    /\ Len(rewrites[2]) > Len(rewrites[1])

\* the block a rewrite was given
Rewritten(r) == IF r = 1 THEN yaml_text ELSE rewrites[r - 1]

\* the lines of the summary field in a list of lines: a line that begins
\* with "summary:" and the indented lines that continue its value
FieldLineNos(ls) ==
    LET key(i) == Len(ls[i]) >= 8 /\ SubSeq(ls[i], 1, 8) = SummaryKey \o <<COLON>>
        indented(i) == ls[i] # <<>> /\ ls[i][1] = SP
    IN  {i \in 1..Len(ls) :
            \/ key(i)
            \/ /\ indented(i)
               /\ \E j \in 1..(i - 1) :
                     key(j) /\ \A k \in (j + 1)..i : indented(k)}

RECURSIVE LinesAt(_, _, _)
\* the lines of ls whose number is in keep, from line i on, in order
LinesAt(ls, keep, i) ==
    IF i > Len(ls) THEN <<>>
    ELSE (IF i \in keep THEN <<ls[i]>> ELSE <<>>) \o LinesAt(ls, keep, i + 1)

\* C15: a rewrite changes only the summary field: the lines outside the
\* field are the same lines in the same order, afterwards the field is
\* exactly one entry, the line of the new value, and a field that was
\* present is replaced where it was.
C15_OnlySummaryFieldChanges ==
    \A r \in 1..Len(rewrites) :
        LET before == SplitOn(Rewritten(r), <<NL>>)
            after == SplitOn(rewrites[r], <<NL>>)
            was == FieldLineNos(before)
            is == FieldLineNos(after)
        IN  /\ LinesAt(after, (1..Len(after)) \ is, 1)
                  = LinesAt(before, (1..Len(before)) \ was, 1)
            /\ LinesAt(after, is, 1) = <<SummaryLine(new_summary)>>
            /\ was # {} => Min(is) = Min(was)

\* C15 failing case: a one-line value was written to a block whose summary
\* field had a continuation line or a second entry, and the block holds more
\* than one line of the field afterwards.
C15_Witness ==
    /\ \A i \in 1..Len(new_summary) : new_summary[i] # NL
    /\ Len(rewrites) >= 1
    /\ Cardinality(FieldLineNos(SplitOn(yaml_text, <<NL>>))) > 1
    /\ Cardinality(FieldLineNos(SplitOn(rewrites[1], <<NL>>))) > 1

(***************************************************************************)
(* SpecBfs: bfs_traversal (bfs_traversal.py 90-150), one iteration of the  *)
(* for loop of line 116 per step.  The path of a note (note_index, line    *)
(* 126) is left out of the note data.                                      *)
(***************************************************************************)
\* the notes of the vault, in sorted order
NoteOrder == <<"a", "b", "c">>
Notes == {NoteOrder[i] : i \in 1..Len(NoteOrder)}

\* str.lower and str.isupper on the letters of the model (a note name of
\* SpecBfs is one letter)
UpperCase == <<"A", "B">>
LowerCase == <<"a", "b">>
IsUpper(c) == \E i \in 1..Len(UpperCase) : c = UpperCase[i]
Lower(c) ==
    IF IsUpper(c)
    THEN LowerCase[CHOOSE i \in 1..Len(UpperCase) : c = UpperCase[i]]
    ELSE c

\* the start notes asked for: the notes, one in another case, an unknown one
StartNotes == Notes \cup {"A", "z"}

\* the lists build_graph makes (lines 50, 82): links to existing notes,
\* none twice, in any order
LinkLists ==
    {l \in UNION {[1..n -> Notes] : n \in 0..Len(NoteOrder)} :
        \A i, j \in 1..Len(l) : l[i] = l[j] => i = j}

\* sorted(names)
Sorted(names) == SelectSeq(NoteOrder, LAMBDA n : n \in names)

InitBfs ==
    /\ adjacency \in [Notes -> LinkLists]
    /\ start_note \in StartNotes
    /\ n_hops \in 0..MaxHops
    /\ bfs = NoBfs
    /\ traversal = <<>>
    /\ bfsPc = "enter"
    /\ MainIdle /\ YamlIdle /\ DedupeIdle /\ CleanIdle

\* lines 103-105: the key whose lower-case form is that of the start note
LowerMatches == {k \in DOMAIN adjacency : Lower(k) = Lower(start_note)}
Resolved ==
    IF start_note \in DOMAIN adjacency THEN start_note
    ELSE CHOOSE k \in LowerMatches : TRUE

\* lines 106-110
BfsNotFound ==
    /\ bfsPc = "enter"
    /\ start_note \notin DOMAIN adjacency
    /\ LowerMatches = {}
    /\ traversal' = [error |-> <<"Note '", start_note, "' not found in vault">>,
                     available_notes |-> Sorted(DOMAIN adjacency)]
    /\ bfsPc' = "done"
    /\ UNCHANGED <<adjacency, start_note, n_hops, bfs, notBfs>>

\* lines 101-105, 112-114
BfsStart ==
    /\ bfsPc = "enter"
    /\ start_note \in DOMAIN adjacency \/ LowerMatches # {}
    /\ bfs' = [start |-> Resolved, visited |-> {Resolved}, levels |-> <<>>,
               current_level |-> <<Resolved>>, hop |-> 0]
    /\ bfsPc' = "loop"
    /\ UNCHANGED <<adjacency, start_note, n_hops, traversal, notBfs>>

NotVisitedNever(neighbor, visited) == TRUE

\* line 134
NotVisited(neighbor, visited) == neighbor \notin visited

RECURSIVE AddNeighbors(_, _)
\* lines 133-136: acc holds visited and next_level
AddNeighbors(neighbors, acc) ==
    IF neighbors = <<>> THEN acc
    ELSE AddNeighbors(Tail(neighbors),
            IF NotVisited(Head(neighbors), acc.visited)
            THEN [visited |-> acc.visited \cup {Head(neighbors)},
                  next_level |-> Append(acc.next_level, Head(neighbors))]
            ELSE acc)

RECURSIVE Collect(_, _, _)
\* lines 123-136 for the notes of the level: the neighbours not yet visited
Collect(level, hop, acc) ==
    IF level = <<>> THEN acc
    ELSE Collect(Tail(level), hop,
            IF hop < n_hops THEN AddNeighbors(adjacency[Head(level)], acc)
            ELSE acc)

\* lines 124-129
NoteData(note) == [name |-> note, outgoing_links |-> adjacency[note]]

\* lines 116-142: one iteration of the loop
BfsLevel ==
    /\ bfsPc = "loop"
    /\ LET level_info ==
               [hop |-> bfs.hop,
                notes |-> [i \in 1..Len(bfs.current_level) |->
                              NoteData(bfs.current_level[i])]]
           acc == Collect(bfs.current_level, bfs.hop,
                          [visited |-> bfs.visited, next_level |-> <<>>])
           last == acc.next_level = <<>> \/ bfs.hop = n_hops
       IN  /\ bfs' = [bfs EXCEPT !.visited = acc.visited,
                                 !.levels = Append(@, level_info),
                                 !.current_level = acc.next_level,
                                 !.hop = IF last THEN @ ELSE @ + 1]
           /\ bfsPc' = IF last THEN "return" ELSE "loop"
    /\ UNCHANGED <<adjacency, start_note, n_hops, traversal, notBfs>>

\* lines 144-150
BfsReturn ==
    /\ bfsPc = "return"
    /\ traversal' = [start_note |-> bfs.start, max_hops |-> n_hops,
                     total_notes_discovered |-> Cardinality(bfs.visited),
                     levels |-> bfs.levels,
                     all_discovered_notes |-> Sorted(bfs.visited)]
    /\ bfsPc' = "done"
    /\ UNCHANGED <<adjacency, start_note, n_hops, bfs, notBfs>>

NextBfs == BfsNotFound \/ BfsStart \/ BfsLevel \/ BfsReturn

SpecBfs == InitBfs /\ [][NextBfs]_vars

RECURSIVE Within(_)
\* the notes that k links or fewer lead to from the resolved start note
Within(k) ==
    IF k = 0 THEN {bfs.start}
    ELSE LET near == Within(k - 1)
         IN  near \cup {m \in Notes : \E n \in near :
                            \E i \in 1..Len(adjacency[n]) : adjacency[n][i] = m}

\* the shortest link distance of a note that can be reached
Distance(note) ==
    CHOOSE k \in 0..Len(NoteOrder) :
        note \in Within(k) /\ \A j \in 0..(k - 1) : note \notin Within(j)

\* where a note is listed in the levels of the result
Listings(note) ==
    {p \in (1..Len(traversal.levels)) \X (1..Len(NoteOrder)) :
        /\ p[2] <= Len(traversal.levels[p[1]].notes)
        /\ traversal.levels[p[1]].notes[p[2]].name = note}

\* C16: when bfs_traversal has returned for a start note of the graph, every
\* discovered note is listed in exactly one level, once; level number hop
\* holds exactly the notes at shortest link distance hop from the start
\* note; and the discovered notes are exactly those within n_hops links.
C16_LevelsAreDistances ==
    (bfsPc = "done" /\ "levels" \in DOMAIN traversal) =>
        LET found == {traversal.all_discovered_notes[i] :
                         i \in 1..Len(traversal.all_discovered_notes)}
        IN  /\ found = Within(n_hops)
            /\ traversal.total_notes_discovered = Cardinality(found)
            /\ \A note \in found : Cardinality(Listings(note)) = 1
            /\ \A note \in Notes \ found : Listings(note) = {}
            /\ \A l \in 1..Len(traversal.levels) :
                  /\ traversal.levels[l].hop = l - 1
                  /\ \A i \in 1..Len(traversal.levels[l].notes) :
                        Distance(traversal.levels[l].notes[i].name) = l - 1

\* C16 witness: a traversal of two hops returned three levels, a note of
\* level 1 links back to the start note, and a note of level 2 is also
\* linked from the start note's level-1 neighbour only.
C16_Witness ==
    /\ bfsPc = "done" /\ "levels" \in DOMAIN traversal
    /\ n_hops = 2
    /\ Len(traversal.levels) = 3
    /\ \E i \in 1..Len(traversal.levels[2].notes) :
          \E j \in 1..Len(traversal.levels[2].notes[i].outgoing_links) :
              traversal.levels[2].notes[i].outgoing_links[j] = bfs.start
    /\ traversal.total_notes_discovered = 3

(***************************************************************************)
(* SpecDedupe: dedupe_wikilinks (dedupe_links.py 73-115), one link of the  *)
(* loop of line 85 per step.                                               *)
(***************************************************************************)
\* line 31
CountCapitals(s) == Cardinality({i \in 1..Len(s) : IsUpper(s[i])})

\* line 40: re.match(r'\[\[([^\]#|]+)', link), and line 42
ExtractWikilinkTarget(link) ==
    LET stops == {i \in 3..Len(link) : link[i] \in {"]", "#", "|"}}
        end == IF stops = {} THEN Len(link) ELSE Min(stops) - 1
    IN  IF MatchAt(link, <<"[", "[">>, 1) /\ end >= 3
        THEN [found |-> TRUE, target |-> Strip(SubSeq(link, 3, end))]
        ELSE [found |-> FALSE, target |-> <<>>]

\* line 92: target.lower()
LowerCased(s) == [i \in 1..Len(s) |-> Lower(s[i])]

\* the entries of the lists: one target in several spellings, with an alias,
\* with a section, padded; another target; an entry that is no wikilink
LinkStrings ==
    { <<"[", "[", "a", "b", "]", "]">>,
      <<"[", "[", "A", "b", "]", "]">>,
      <<"[", "[", "a", "B", "|", "x", "]", "]">>,
      <<"[", "[", "A", "B", "#", "s", "]", "]">>,
      <<"[", "[", SP, "A", "B", "]", "]">>,
      <<"[", "[", "b", "]", "]">>,
      <<"a", "b">> }

InitDedupe ==
    /\ links \in UNION {[1..n -> LinkStrings] : n \in 0..MaxLinks}
    /\ dedupe = NoDedupe
    /\ dedupePc = "loop"
    /\ MainIdle /\ YamlIdle /\ BfsIdle /\ CleanIdle

\* seen[key] = value
SeenSet(seen, key, value) ==
    [k \in DOMAIN seen \cup {key} |-> IF k = key THEN value ELSE seen[k]]

ReplacesOnTie(capitals, existing_capitals) == capitals >= existing_capitals

\* line 103
Replaces(capitals, existing_capitals) == capitals > existing_capitals

\* lines 86-113: the body of the loop for one link
DedupeLink(d, link) ==
    LET m == ExtractWikilinkTarget(link)
        key == LowerCased(m.target)
        capitals == CountCapitals(m.target)
        entry == [link |-> link, target |-> m.target, capitals |-> capitals]
    IN  IF ~m.found
        THEN [d EXCEPT !.result = Append(@, link)]
        ELSE IF key \notin DOMAIN d.seen
        THEN [d EXCEPT !.seen = SeenSet(@, key, entry),
                       !.result = Append(@, link)]
        ELSE IF Replaces(capitals, d.seen[key].capitals)
        THEN [d EXCEPT
                !.result = Append(SelectSeq(@, LAMBDA r : r # d.seen[key].link),
                                  link),
                !.removed = Append(@, d.seen[key].link),
                !.seen = SeenSet(@, key, entry)]
        ELSE [d EXCEPT !.removed = Append(@, link)]

\* line 85: the next link
DedupeStep ==
    /\ dedupePc = "loop"
    /\ dedupe.done < Len(links)
    /\ dedupe' = [DedupeLink(dedupe, links[dedupe.done + 1])
                     EXCEPT !.done = dedupe.done + 1]
    /\ UNCHANGED <<links, dedupePc, notDedupe>>

\* line 115
DedupeReturn ==
    /\ dedupePc = "loop"
    /\ dedupe.done = Len(links)
    /\ dedupePc' = "done"
    /\ UNCHANGED <<links, dedupe, notDedupe>>

NextDedupe == DedupeStep \/ DedupeReturn

SpecDedupe == InitDedupe /\ [][NextDedupe]_vars

\* an entry is a wikilink when it begins with "[[" and a character of a
\* target; its target without regard to case
IsWikilink(link) ==
    Len(link) >= 3 /\ link[1] = "[" /\ link[2] = "[" /\ link[3] \notin {"]", "#", "|"}
TargetKey(link) == LowerCased(ExtractWikilinkTarget(link).target)
Capitals(link) == CountCapitals(ExtractWikilinkTarget(link).target)

\* how often an entry occurs in a list
Occurrences(list, link) == Cardinality({i \in 1..Len(list) : list[i] = link})

\* C17: when dedupe_wikilinks has returned, the kept list holds at most one
\* wikilink per case-insensitive target; the kept wikilink of a target is
\* the earliest input entry among those of the target with the most capital
\* letters; the entries that are no wikilinks are kept, all and in order;
\* and every input entry is in exactly one of the two lists: each entry
\* occurs in kept and removed together as often as in the input.
C17_KeepsMostCapitals ==
    dedupePc = "done" =>
        LET kept == dedupe.result
            removed == dedupe.removed
        IN  /\ \A i, j \in 1..Len(kept) :
                  (IsWikilink(kept[i]) /\ IsWikilink(kept[j])
                      /\ TargetKey(kept[i]) = TargetKey(kept[j])) => i = j
            /\ \A i \in 1..Len(kept) : IsWikilink(kept[i]) =>
                  \E e \in 1..Len(links) :
                      /\ links[e] = kept[i]
                      /\ \A o \in 1..Len(links) :
                            (IsWikilink(links[o])
                                /\ TargetKey(links[o]) = TargetKey(kept[i])) =>
                                \/ Capitals(links[o]) < Capitals(links[e])
                                \/ Capitals(links[o]) = Capitals(links[e]) /\ e <= o
            /\ \A e \in 1..Len(links) : IsWikilink(links[e]) =>
                  \E i \in 1..Len(kept) :
                      IsWikilink(kept[i]) /\ TargetKey(kept[i]) = TargetKey(links[e])
            /\ SelectSeq(kept, LAMBDA l : ~IsWikilink(l))
                  = SelectSeq(links, LAMBDA l : ~IsWikilink(l))
            /\ \A l \in 1..Len(removed) : IsWikilink(removed[l])
            /\ Len(kept) + Len(removed) = Len(links)
            /\ \A link \in LinkStrings :
                  Occurrences(kept, link) + Occurrences(removed, link)
                      = Occurrences(links, link)

\* C17 witness: three entries of one target: the second has more capitals
\* than the first and replaced it, the third ties with the second and was
\* removed; the kept list holds the second only.
C17_Witness ==
    /\ dedupePc = "done"
    /\ Len(links) = 3
    /\ TargetKey(links[1]) = TargetKey(links[2])
    /\ TargetKey(links[2]) = TargetKey(links[3])
    /\ Capitals(links[1]) < Capitals(links[2])
    /\ Capitals(links[3]) = Capitals(links[2])
    /\ links[3] # links[2]
    /\ dedupe.result = <<links[2]>>
    /\ dedupe.removed = <<links[1], links[3]>>

(***************************************************************************)
(* Properties of the hard split and of the pieces (SpecRec).               *)
(***************************************************************************)
\* the calls that have returned from the hard split: longer than chunk_size,
\* none of their separators in their text
HardSplitReturns ==
    {i \in 1..Len(stack) :
        /\ stack[i].at = "return"
        /\ Len(stack[i].text) > chunk_size
        /\ \A s \in 1..Len(stack[i].separators) :
              ~Contains(stack[i].text, stack[i].separators[s])}

\* text[(k-1)M : kM], k counted from 1
Slice(t, k) ==
    SubSeq(t, (k - 1) * chunk_size + 1, Min({k * chunk_size, Len(t)}))
SliceCount(t) == (Len(t) + chunk_size - 1) \div chunk_size

\* C18 as stated: the hard split returns consecutive pieces of exactly
\* chunk_size characters, only the last may be shorter.
C18_HardCutExactSize ==
    \A i \in HardSplitReturns :
        LET t == stack[i].text
            chunks == stack[i].chunks
        IN  /\ Len(chunks) = SliceCount(t)
            /\ \A k \in 1..Len(chunks) : chunks[k] = Slice(t, k)
            /\ \A k \in 1..(Len(chunks) - 1) : Len(chunks[k]) = chunk_size

\* C18 amended: the hard split returns the consecutive slices of chunk_size
\* characters (the last may be shorter), each trimmed, without the slices
\* that are blank; a piece has exactly chunk_size characters when its slice
\* is not the last and neither begins nor ends with whitespace.
C18_HardCutTrimmedSlices ==
    \A i \in HardSplitReturns :
        LET t == stack[i].text
            chunks == stack[i].chunks
            trimmed == [k \in 1..SliceCount(t) |-> Strip(Slice(t, k))]
        IN  /\ chunks = SelectSeq(trimmed, LAMBDA p : p # <<>>)
            /\ (\A c \in 1..Len(t) : ~IsSpace(t[c])) =>
                  /\ Len(chunks) = SliceCount(t)
                  /\ \A k \in 1..Len(chunks) : chunks[k] = Slice(t, k)
                  /\ \A k \in 1..(Len(chunks) - 1) : Len(chunks[k]) = chunk_size

\* C18 witness: a hard split returned two pieces or more; the first lost a
\* character to trimming and is shorter than chunk_size, the second has
\* exactly chunk_size characters.
C18_Witness ==
    \E i \in HardSplitReturns :
        /\ SliceCount(stack[i].text) >= 2
        /\ Len(stack[i].chunks) >= 2
        /\ Len(stack[i].chunks[1]) < chunk_size
        /\ Len(stack[i].chunks[2]) = chunk_size

\* C19: every piece split_text_recursively returned is non-empty and has no
\* leading or trailing whitespace.
C19_PiecesTrimmedNonEmpty ==
    recPc = "done" =>
        \A i \in 1..Len(pieces) :
            pieces[i] # <<>> /\ Strip(pieces[i]) = pieces[i]

\* C19 failing case: a text of whitespace longer than chunk_size was split
\* with the default separators and an empty piece was returned.
C19_Witness ==
    /\ recPc = "done"
    /\ separators = DefaultSeparators
    /\ Len(text) > chunk_size
    /\ \E i \in 1..Len(pieces) : pieces[i] = <<>>

(***************************************************************************)
(* Order of the chunks of split_note (SpecNote).                           *)
(***************************************************************************)
\* the rendered sections of the body that are not blank, in document order
Rendered ==
    LET sections == SplitByMarkdownHeaders(body, DefaultLevels)
    IN  SelectSeq([k \in 1..Len(sections) |-> SectionText(sections[k])],
                  LAMBDA t : Strip(t) # <<>>)

\* a group of consecutive sections first..last makes chunks: an oversized
\* section alone gives its pieces, sections that each fit give their join
GroupAllowed(r, first, last) ==
    \/ first = last /\ Len(r[first]) > chunk_size
    \/ \A k \in first..last : Len(r[k]) <= chunk_size
GroupChunks(r, first, last) ==
    IF first = last /\ Len(r[first]) > chunk_size
    THEN SplitTextRecursively(r[first], chunk_size, DefaultSeparators)
    ELSE <<Join(SubSeq(r, first, last), Joiner)>>

RECURSIVE GroupsFrom(_, _, _)
\* the chunks of the groups that the cuts (a cut after section c) make of
\* the sections from first on, group after group; the chunk <<"no">> marks
\* a group that is not allowed
GroupsFrom(r, cuts, first) ==
    IF first > Len(r) THEN <<>>
    ELSE LET last == Min({c \in cuts : c >= first} \cup {Len(r)})
         IN  IF GroupAllowed(r, first, last)
             THEN GroupChunks(r, first, last) \o GroupsFrom(r, cuts, last + 1)
             ELSE << <<"no">> >>

\* C20: the chunks of a body with sections are those of consecutive groups
\* of its sections, in document order: every group is either sections that
\* fit, joined into one chunk, or one oversized section alone, replaced by
\* its pieces; so the buffer pending before an oversized section is a chunk
\* of its own, the pieces follow it contiguously, and no piece is joined with
\* another section.
C20_ChunksInDocumentOrder ==
    (notePc = "done" /\ Rendered # <<>>) =>
        \E cuts \in SUBSET (1..(Len(Rendered) - 1)) :
            LET out == GroupsFrom(Rendered, cuts, 1)
            IN  /\ \A k \in 1..Len(out) : out[k] # <<"no">>
                /\ note_chunks = SelectNonBlank(out)

\* C20 witness: a section that fits is followed by an oversized section cut
\* in two pieces or more: the first section is a chunk of its own although
\* it would fit in one chunk with the first piece, and the pieces follow.
C20_Witness ==
    /\ notePc = "done"
    /\ Len(Rendered) = 2
    /\ Len(Rendered[1]) <= chunk_size
    /\ Len(Rendered[2]) > chunk_size
    /\ LET parts == SplitTextRecursively(Rendered[2], chunk_size,
                                         DefaultSeparators)
       IN  /\ Len(parts) >= 2
           /\ Len(Rendered[1]) + 2 + Len(parts[1]) <= chunk_size
           /\ note_chunks = <<Rendered[1]>> \o parts
(***************************************************************************)
(* When split_note flushes its buffer (SpecNote).                          *)
(***************************************************************************)
\* the first section of the group that ends with section c, given the cuts
GroupFirst(cuts, c) == Max({k + 1 : k \in {j \in cuts : j < c}} \cup {1})

\* C21: in split_note a section that fits is appended to the pending buffer
\* whenever the buffer joined with it by the two-character joiner is no
\* longer than chunk_size, and the buffer is flushed only when that joined
\* length exceeds chunk_size: wherever the chunks are cut between a buffer
\* of fitting sections and a next fitting section, their join is too long.
C21_FlushOnlyOnOverflow ==
    (notePc = "done" /\ Rendered # <<>>) =>
        \E cuts \in SUBSET (1..(Len(Rendered) - 1)) :
            LET out == GroupsFrom(Rendered, cuts, 1)
            IN  /\ \A k \in 1..Len(out) : out[k] # <<"no">>
                /\ note_chunks = SelectNonBlank(out)
                /\ \A c \in cuts :
                      LET first == GroupFirst(cuts, c)
                      IN  (\A k \in first..(c + 1) :
                               Len(Rendered[k]) <= chunk_size) =>
                            Len(Join(SubSeq(Rendered, first, c + 1), Joiner))
                                > chunk_size

\* C21 failing case: two sections that fit and whose join is no longer than
\* chunk_size are returned as two chunks.
C21_Witness ==
    /\ notePc = "done"
    /\ Len(Rendered) = 2
    /\ Len(Rendered[1]) <= chunk_size
    /\ Len(Rendered[2]) <= chunk_size
    /\ Len(Join(Rendered, Joiner)) <= chunk_size
    /\ note_chunks = Rendered
(***************************************************************************)
(* split_by_markdown_headers on a text without headings (SpecHeaders).     *)
(***************************************************************************)
\* no line of the text is a heading of a tracked level
NoTrackedHeading ==
    LET lns == SplitOn(body, <<NL>>)
    IN  \A k \in 1..Len(lns) : ~IsTrackedHeading(lns[k], levels)

\* C22 as stated: for every text without a heading line of a tracked level,
\* split_by_markdown_headers returns exactly one Section, with an empty
\* breadcrumb and the trimmed text as content.
C22_NoHeadingOneSection ==
    (hdrPc = "done" /\ NoTrackedHeading) =>
        hdr.sections = <<[content |-> Strip(body), headers |-> <<>>]>>

\* C22, amended: for a text without a heading line of a tracked level,
\* split_by_markdown_headers returns one Section with an empty breadcrumb
\* and the trimmed text as content when the text is not blank, and no
\* Section at all when the text is empty or whitespace only.
C22_NoHeadingOneSectionUnlessBlank ==
    (hdrPc = "done" /\ NoTrackedHeading) =>
        hdr.sections = IF Strip(body) = <<>> THEN <<>>
                       ELSE <<[content |-> Strip(body), headers |-> <<>>]>>

\* C22 witness: a text that begins with a blank line and holds a heading of a
\* level that is not tracked came back as one Section without breadcrumb,
\* the heading line within its trimmed content.
C22_Witness ==
    /\ hdrPc = "done"
    /\ NoTrackedHeading
    /\ levels = <<1, 2>>
    /\ Len(body) > 5 /\ SubSeq(body, 1, 5) = <<NL, HASH, HASH, HASH, SP>>
    /\ Len(hdr.sections) = 1
    /\ hdr.sections[1].headers = <<>>
    /\ hdr.sections[1].content = Strip(body)
    /\ hdr.sections[1].content # body
(***************************************************************************)
(* The map step of summarize_chunks (Spec).                                *)
(***************************************************************************)
\* C23: for N > 1 chunks all N map requests are launched before the
\* orchestrator waits on any of them, and the prompt of each is made of its
\* own chunk and the fixed template only.  Step by step: map calls appear
\* only in a step of the orchestrator that was not waiting and waits after
\* it, that step adds one in-flight map call per chunk of the document, in
\* the order of the chunks, each with the map template and its own chunk as
\* prompt, and no later step (no answer of another call) changes the prompt,
\* the document or the position of a call.
C23_MapCallsLaunchedTogether ==
    [][\A i \in 1..Len(calls') :
          IF i <= Len(calls)
          THEN /\ calls'[i].prompt = calls[i].prompt
               /\ calls'[i].doc = calls[i].doc
               /\ calls'[i].position = calls[i].position
          ELSE calls'[i].kind = "map" =>
                 LET g == given'[Len(given')]
                     n == Len(g.chunks)
                 IN  /\ runPc = "file" /\ runPc' = "gather"
                     /\ g.doc = CurNo
                     /\ n > 1
                     /\ Len(calls') = Len(calls) + n
                     /\ \A k \in 1..n :
                           calls'[Len(calls) + k] =
                               [doc |-> CurNo, kind |-> "map", position |-> k,
                                prompt |-> [template |-> "MAP_PROMPT",
                                            text |-> g.chunks[k]],
                                status |-> "inflight", response |-> <<>>,
                                error |-> ""]]_vars

\* C23 witness: the orchestrator waits for the map calls of a document of
\* several chunks; the first call has answered, the second is in flight, and
\* the prompt of each holds its own chunk.
C23_Witness ==
    /\ runPc = "gather"
    /\ Len(job.chunks) > 1
    /\ job.chunks[1] # job.chunks[2]
    /\ MapCall(CurNo, 1).status = "ok"
    /\ MapCall(CurNo, 2).status = "inflight"
    /\ \A k \in 1..Len(job.chunks) :
          MapCall(CurNo, k).prompt.text = job.chunks[k]
\* the join of document d has returned: with results (the reduce call was
\* issued) or with a failure (the document has its record)
JoinReturned(d) == d <= Len(results) \/ CallsOf(d, "reduce") # {}

\* C24 as stated: the join of the map step returns only once every launched
\* map call has completed or failed: no map call of a document is in flight
\* after the join of that document has returned, with results or a failure.
C24_NoMapInFlightAfterJoin ==
    [](\A i \in 1..Len(calls) :
          (calls[i].kind = "map" /\ JoinReturned(calls[i].doc)) =>
              calls[i].status # "inflight")

\* C24, amended: when the join has returned results, every map call of the
\* document has completed; a map call is in flight after the join of its
\* document has returned only when the join returned the failure of another
\* map call of that document (the record is then the error record), and it
\* stays in flight no longer than the run.
C24_MapInFlightOnlyAfterFailure ==
    [](/\ \A i \in 1..Len(calls) :
             (calls[i].kind = "map" /\ JoinReturned(calls[i].doc)) =>
                 /\ CallsOf(calls[i].doc, "reduce") # {} =>
                        calls[i].status = "ok"
                 /\ calls[i].status = "inflight" =>
                        /\ MapFailed(calls[i].doc)
                        /\ "error" \in DOMAIN results[calls[i].doc]
       /\ runPc \in {"done", "crashed"} =>
             \A i \in 1..Len(calls) : calls[i].status # "inflight")

\* C24 witness: the join of the first document returned the failure of a map
\* call while another map call of that document was in flight; that call is
\* still in flight while the second document is being summarized.
C24_Witness ==
    /\ Len(results) = 1
    /\ "error" \in DOMAIN results[1]
    /\ MapFailed(1)
    /\ \E i \in CallsOf(1, "map") : calls[i].status = "inflight"
    /\ Suspended
    /\ CurNo = 2
(***************************************************************************)
(* SpecClean: clean_llm_output on a response of the model (lines 327-335,  *)
(* called on resp.message.content at line 349).                            *)
(***************************************************************************)
\* what a response is made of: the two quote characters, whitespace, a
\* letter, and the delimiters of a reasoning annotation
ResponseTokens ==
    { <<QUOTE>>, <<APOS>>, <<SP>>, <<NL>>, <<"a">>, ThinkOpen, ThinkClose }

\* the responses tried: up to MaxTokens tokens
ResponseTexts ==
    { Concat(ts) :
        ts \in UNION {[1..n -> ResponseTokens] : n \in 0..MaxTokens} }

InitClean ==
    /\ llm_text \in ResponseTexts
    /\ cleaned = <<>>
    /\ cleanPc = "call"
    /\ MainIdle /\ YamlIdle /\ BfsIdle /\ DedupeIdle

\* lines 327-335
CleanCall ==
    /\ cleanPc = "call"
    /\ cleaned' = CleanLlmOutput(llm_text)
    /\ cleanPc' = "done"
    /\ UNCHANGED <<llm_text, notClean>>

NextClean == CleanCall

SpecClean == InitClean /\ [][NextClean]_vars
\* the text without its first and last character
Inside(t) == SubSeq(t, 2, Len(t) - 1)

\* the text has the quote character q at both ends
Wrapped(t, q) == Len(t) >= 2 /\ t[1] = q /\ t[Len(t)] = q

\* the response without its reasoning annotations, trimmed
Answer == Strip(StripThink(llm_text))

\* C25 as stated: clean_llm_output removes the reasoning annotations, trims
\* whitespace, and removes at most one layer of surrounding quote characters,
\* only when the first and the last character are the same quote character:
\* a response wrapped in two layers of quotes keeps its inner layer.
C25_AtMostOneQuoteLayer ==
    cleanPc = "done" =>
        cleaned = IF Wrapped(Answer, QUOTE) \/ Wrapped(Answer, APOS)
                  THEN Strip(Inside(Answer))
                  ELSE Answer

\* C25, amended: clean_llm_output removes the reasoning annotations, trims
\* whitespace, removes one layer of double quotes when both ends are double
\* quotes, then one layer of single quotes when both ends of what is left
\* are single quotes, and trims again.  Two layers of the same quote
\* character, and single quotes around double quotes, lose the outer layer
\* only; double quotes around single quotes lose both layers.
C25_OneLayerOfEachQuote ==
    cleanPc = "done" =>
        cleaned =
            IF Wrapped(Answer, QUOTE)
            THEN IF Wrapped(Inside(Answer), APOS)
                 THEN Strip(Inside(Inside(Answer)))
                 ELSE Strip(Inside(Answer))
            ELSE IF Wrapped(Answer, APOS)
                 THEN Strip(Inside(Answer))
                 ELSE Answer

\* C25 witness: a response of a letter in single quotes in double quotes
\* came back as the letter alone.
C25_Witness ==
    /\ cleanPc = "done"
    /\ llm_text = <<QUOTE, APOS, "a", APOS, QUOTE>>
    /\ cleaned = <<"a">>
(***************************************************************************)
(* Input errors of a batch run (Spec).                                     *)
(***************************************************************************)
\* the input errors of a file: it is missing, it is not of the markdown
\* type, or it can be read and has no metadata block, a metadata block that
\* does not parse, or a body that is empty after trimming
InputError(p) ==
    \/ ~fs[p].exists
    \/ p.suffix # ".md"
    \/ /\ fs[p].read_error = ""
       /\ LET parsed == ExtractFrontmatterAndBody(fs[p].content)
          IN  parsed.fm.kind = "None" \/ Strip(parsed.body) = <<>>

LevelOrdered(headers) ==
    \A i, j \in 1..Len(headers) : i < j => headers[i][1] < headers[j][1]

\* the titles of a breadcrumb from the shallowest level to the deepest,
\* whatever the order of its entries
TitlesByLevel(headers) ==
    [k \in 1..Len(headers) |->
        (CHOOSE e \in Entries(headers) :
            Cardinality({f \in Entries(headers) : f[1] < e[1]}) = k - 1)[2]]

\* C27: in every Section emitted by split_by_markdown_headers, whatever the
\* order in which headings of different levels occur, the breadcrumb entries
\* are ordered from the shallowest tracked level to the deepest, so that the
\* rendered trail lists an enclosing heading before those nested in it.
C27_BreadcrumbShallowestFirst ==
    /\ LevelOrdered(hdr.current_headers)
    /\ \A k \in 1..Len(hdr.sections) :
          LET sec == hdr.sections[k]
          IN  /\ LevelOrdered(sec.headers)
              /\ sec.headers # <<>> =>
                    SectionText(sec) =
                        <<"[">> \o Join(TitlesByLevel(sec.headers),
                                        <<SP, ">", SP>>)
                        \o <<"]", NL>> \o sec.content

\* C27 witness: the text begins with a heading of level 2, a heading of
\* level 1 follows, then a heading of level 2 and text: the Section of that
\* text has the level 1 title before the level 2 title, rendered "[A > B]".
C27_Witness ==
    /\ hdrPc = "done"
    /\ Len(lines) = 4
    /\ lines[1] = <<HASH, HASH, SP, "A">>
    /\ lines[2] = <<HASH, SP, "A">>
    /\ lines[3] = <<HASH, HASH, SP, "B">>
    /\ Len(hdr.sections) = 1
    /\ hdr.sections[1].headers = << <<1, <<"A">> >>, <<2, <<"B">> >> >>
    /\ SectionText(hdr.sections[1])
         = <<"[", "A", SP, ">", SP, "B", "]", NL>> \o hdr.sections[1].content
(***************************************************************************)
(* How many generation calls a document causes (Spec).                     *)
(***************************************************************************)
\* the generation calls of document d, of every kind
AllCallsOf(d) == {i \in 1..Len(calls) : calls[i].doc = d}

\* the chunk lists summarize_chunks was given for document d
GivenFor(d) == {g \in 1..Len(given) : given[g].doc = d}

\* C28 as stated: process_file never starts summarization with an empty
\* chunk list: the number of generation calls a document causes is 0, 1, or
\* N + 1 for its N >= 2 chunks, and a reduce call is never issued with zero
\* map summaries.
C28_CallsZeroOneOrNPlusOne ==
    [](\A d \in 1..Len(files) :
          /\ \A g \in GivenFor(d) : given[g].chunks # <<>>
          /\ CallsOf(d, "reduce") # {} => CallsOf(d, "map") # {}
          /\ Ended(d) =>
                LET T == Cardinality(AllCallsOf(d))
                IN  \/ T = 0 /\ GivenFor(d) = {}
                    \/ \E g \in GivenFor(d) :
                          LET N == Len(given[g].chunks)
                          IN  \/ N = 1 /\ T = 1
                              \/ N >= 2 /\ T = N + 1)

\* C28, amended: summarization never starts with an empty chunk list; a
\* document causes 0 generation calls (no summarization), 1 (one chunk),
\* N + 1 (N >= 2 chunks and every map call returned) or N (N >= 2 chunks and
\* a map call failed: no reduce call); a reduce call is issued only with the
\* N >= 2 summaries of the map calls.
C28_CallsZeroOneNOrNPlusOne ==
    [](\A d \in 1..Len(files) :
          /\ \A g \in GivenFor(d) : given[g].chunks # <<>>
          /\ Cardinality(GivenFor(d)) <= 1
          /\ \A i \in CallsOf(d, "reduce") :
                /\ Cardinality(CallsOf(d, "map")) >= 2
                /\ MapsOk(d)
          /\ Ended(d) =>
                LET T == Cardinality(AllCallsOf(d))
                IN  \/ T = 0 /\ GivenFor(d) = {}
                    \/ \E g \in GivenFor(d) :
                          LET N == Len(given[g].chunks)
                          IN  \/ N = 1 /\ T = 1
                              \/ N >= 2 /\ ~MapFailed(d) /\ T = N + 1
                              \/ N >= 2 /\ MapFailed(d) /\ T = N)

\* C28 witness: a run has ended with a document that caused no call, and a
\* document of two chunks that caused two calls: a map call failed, the
\* other was issued with it, and no reduce call followed.
C28_Witness ==
    /\ runPc = "done"
    /\ \E d \in 1..Len(files) : AllCallsOf(d) = {} /\ GivenFor(d) = {}
    /\ \E g \in 1..Len(given) :
          /\ Len(given[g].chunks) = 2
          /\ Cardinality(AllCallsOf(given[g].doc)) = 2
          /\ MapFailed(given[g].doc)
(***************************************************************************)
(* One document at a time (Spec).                                          *)
(***************************************************************************)
\* C29: the documents of a batch are processed strictly one after another.
\* A step that issues a generation call issues it for the document in
\* progress, after the records of all the documents before it were appended
\* and before any call of a later document; a step that writes a file
\* writes the file of the document in progress, when the call the
\* orchestrator was awaiting (the stuff or the reduce call of that very
\* document) returns, and appends the record of that document.
C29_OneDocumentAtATime ==
    [][/\ \A i \in (Len(calls) + 1)..Len(calls') :
             /\ calls'[i].doc = CurNo
             /\ Len(results) = CurNo - 1
             /\ \A j \in 1..Len(calls) : calls[j].doc <= CurNo
       /\ (writes' # writes \/ fs' # fs) =>
             /\ writes' = Append(writes, CurNo)
             /\ \A p \in DOMAIN fs : fs'[p] # fs[p] => p = CurPath
             /\ runPc \in {"stuff", "reduce"}
             /\ \E i \in CallsOf(CurNo, FinalKind(job.chunks)) :
                   /\ calls[i].status = "inflight"
                   /\ calls'[i].status = "ok"
             /\ Len(results) = CurNo - 1
             /\ results' = Append(results, results'[CurNo])
             /\ results'[CurNo].file = CurPath
             /\ \A j \in 1..Len(calls) : calls[j].doc <= CurNo]_vars

\* C29 witness: the first document was summarized and written and has its
\* record, and the second document, of several chunks, is written: its
\* reduce call was issued after the record of the first.
C29_Witness ==
    /\ writes = <<1, 2>>
    /\ Len(results) = 2
    /\ results[1].updated /\ results[2].updated
    /\ \E i \in CallsOf(1, "stuff"), j \in CallsOf(2, "map"),
          k \in CallsOf(2, "reduce") : i < j /\ j < k
(***************************************************************************)
(* Later runs on a document a run has written (SpecYaml).                  *)
(***************************************************************************)
\* the summary field process_file reads in a metadata block (line 400)
StoredSummary(block) ==
    DictGet(YamlSafeLoad(block), SummaryKey, StrValue(<<>>))

\* process_file summarizes and rewrites a document with this metadata block
\* (lines 394-409): the block parses to a mapping and holds no human summary
Rewritable(block) ==
    /\ YamlSafeLoad(block).kind = "mapping"
    /\ ~HumanSummary(StoredSummary(block))

\* the block parses and its summary field begins with the machine marker
MachineSummary(block) ==
    /\ YamlSafeLoad(block).kind = "mapping"
    /\ StoredSummary(block).type = "str"
    /\ MatchAt(StoredSummary(block).val, AiMarker \o <<SP>>, 1)

\* C30: after a run has written a summary, the stored field value begins
\* with "[AI] ", so that every later run on the unchanged document takes the
\* value as machine-generated: it is not reported as a skip (nor as an
\* error), and the document is summarized and rewritten again.
C30_WrittenSummaryIsMachine ==
    Rewritable(yaml_text) =>
        \A r \in 1..Len(rewrites) :
            /\ MachineSummary(rewrites[r])
            /\ Rewritable(rewrites[r])

\* C30 failing case: the summary has two lines.  The first run wrote a block
\* a second run takes as machine-generated and rewrites; the block of the
\* second run keeps the second line of the old value after the new field,
\* and no longer parses: a third run reports an error and rewrites nothing.
C30_Witness ==
    /\ Rewritable(yaml_text)
    /\ \E i \in 1..Len(new_summary) : new_summary[i] = NL
    /\ Len(rewrites) = 2
    /\ MachineSummary(rewrites[1])
    /\ YamlSafeLoad(rewrites[2]).kind = "YAMLError"

=============================================================================
